---- MODULE Spec2Model ----
(***************************************************************************)
(* Drift Master championship: the tournament rules and progression engine  *)
(* (app/rules.py, app/services.py) as a state machine over the database    *)
(* tables.                                                                 *)
(*                                                                         *)
(* Numbers.  Every score the program stores is a float rounded to two      *)
(* decimals; the model keeps scores as integers in hundredths (6.00 is     *)
(* 600).  A raw request value is an integer in thousandths, so that        *)
(* round_score has something to round.  An unrounded mean is kept as the   *)
(* exact fraction sum/count until round_score is applied to it.            *)
(*                                                                         *)
(* None is modelled as 0 for ids, ranks and places (real ones start at 1)  *)
(* and as "" for a group name.                                             *)
(***************************************************************************)
EXTENDS Integers, Sequences, FiniteSets, TLC

VARIABLES
    status,     \* competitions.status, by competition id
    judges,     \* competition_judges: the judge ids of each competition
    entries,    \* competition_drivers: by competition id, by driver id
    qscores,    \* qualifying_scores: <<competition, driver, judge, run>> -> score
    battles,    \* battles: sequence of rows, the id is the index
    bscores,    \* battle_run_scores: <<battle, omt_round, run, judge>> -> points
    is_closed,  \* global_classifications.is_closed of the one classification
    last        \* the response to the last command

vars == <<status, judges, entries, qscores, battles, bscores, is_closed, last>>

\* The tables a command reads and writes, as one value.
db == [status |-> status, judges |-> judges, entries |-> entries,
       qscores |-> qscores, battles |-> battles, bscores |-> bscores,
       is_closed |-> is_closed]

-----------------------------------------------------------------------------
(* Bounds of the model *)

\* SpecBattle: score requests name overtime rounds 0..MaxOmtRound.
MaxOmtRound == 1
\* SpecBattle: rows of battle_run_scores with omt_round > 0 that the table
\* may hold (a full overtime round of two judges is 4 rows).
MaxOmtRows == 4

-----------------------------------------------------------------------------
(* Generic helpers                                                          *)
(*                                                                          *)
(* A value that a function of the program keeps in a local variable and     *)
(* reads several times is passed on as the argument of a helper operator.   *)

RECURSIVE SumFn(_, _)
SumFn(f, S) ==
    IF S = {} THEN 0
    ELSE LET x == CHOOSE y \in S : TRUE IN f[x] + SumFn(f, S \ {x})

SetMax(S) == CHOOSE x \in S : \A y \in S : y <= x

\* Lexicographic "strictly before" on two integer tuples of the same length:
\* the order Python gives tuples used as sort keys.
RECURSIVE TupleLess(_, _)
TupleLess(a, b) ==
    IF a = <<>> THEN FALSE
    ELSE IF Head(a) # Head(b) THEN Head(a) < Head(b)
    ELSE TupleLess(Tail(a), Tail(b))

\* list.sort(key=...) of the rows in set S whose keys (Key[r]) are pairwise
\* different: the unique sequence in ascending key order.
SortByKey(S, Key) ==
    [i \in 1..Cardinality(S) |->
        CHOOSE r \in S : Cardinality({o \in S : TupleLess(Key[o], Key[r])}) = i - 1]

SeqToSet(s) == {s[i] : i \in 1..Len(s)}

-----------------------------------------------------------------------------
(* Python floats.  The standings add and subtract round scores as IEEE 754   *)
(* doubles.  Every double they meet is a multiple of 2^-60 below 128; the    *)
(* model holds it as the integer value * 2^60, written with five limbs of    *)
(* 15 bits, the most significant first.  The limbs of a negative double are  *)
(* all <= 0, so that tuples of limbs compare as the doubles do.              *)

FloatBase == 32768

\* the bits of a double's significand
FloatBits == 53

FloatZero == <<0, 0, 0, 0, 0>>

\* The limbs brought back into 0..FloatBase-1, carrying (or borrowing) upwards.
float_carry(n) ==
    LET x5 == n[5]
        x4 == n[4] + (x5 \div FloatBase)
        x3 == n[3] + (x4 \div FloatBase)
        x2 == n[2] + (x3 \div FloatBase)
        x1 == n[1] + (x2 \div FloatBase)
    IN  <<x1, x2 % FloatBase, x3 % FloatBase, x4 % FloatBase, x5 % FloatBase>>

\* The number of bits of x >= 0.
bit_length(x) == CHOOSE n \in 0..31 : (n = 0 \/ 2^(n - 1) <= x) /\ (n = 31 \/ x < 2^n)

\* The bits of n >= 0 below its 53 leading ones: 0 when n fits a significand.
float_excess(n) ==
    LET i == IF \E k \in 1..5 : n[k] # 0
             THEN CHOOSE k \in 1..5 : n[k] # 0 /\ \A j \in 1..(k - 1) : n[j] = 0
             ELSE 5
        bits == bit_length(n[i]) + 15 * (5 - i)
    IN  IF bits > FloatBits THEN bits - FloatBits ELSE 0

\* n >= 0 rounded to 53 significant bits, to nearest, ties to even; sticky
\* says that the exact value lies above n, by less than 2^-60.
float_round_by(n, sticky, d) ==
    LET low == n[5] % 2^d
        half == 2^(d - 1)
        odd == (n[5] \div 2^d) % 2 = 1
        up == \/ low > half
              \/ low = half /\ (sticky \/ odd)
    IN  float_carry([n EXCEPT ![5] = n[5] - low + (IF up THEN 2^d ELSE 0)])

float_round(n, sticky) ==
    IF float_excess(n) = 0 THEN n ELSE float_round_by(n, sticky, float_excess(n))

float_neg(a) == [i \in 1..5 |-> -a[i]]

\* a + b of two doubles >= 0
float_add(a, b) == float_round(float_carry([i \in 1..5 |-> a[i] + b[i]]), FALSE)

\* a - b of two doubles >= 0
float_sub(a, b) ==
    IF a = b THEN FloatZero
    ELSE IF TupleLess(b, a)
    THEN float_round(float_carry([i \in 1..5 |-> a[i] - b[i]]), FALSE)
    ELSE float_neg(float_round(float_carry([i \in 1..5 |-> b[i] - a[i]]), FALSE))

\* The double nearest to k hundredths (k >= 0): what round(value, 2) returns.
float_of(k) ==
    LET q1 == k \div 100
        r1 == k % 100
        q2 == (r1 * FloatBase) \div 100
        r2 == (r1 * FloatBase) % 100
        q3 == (r2 * FloatBase) \div 100
        r3 == (r2 * FloatBase) % 100
        q4 == (r3 * FloatBase) \div 100
        r4 == (r3 * FloatBase) % 100
        q5 == (r4 * FloatBase) \div 100
        r5 == (r4 * FloatBase) % 100
    IN  float_round(<<q1, q2, q3, q4, q5>>, r5 # 0)

\* round(value, 2) of a double, in hundredths: the nearest hundredth.
hundredths_of_abs(a) ==
    LET m == float_carry([i \in 1..5 |-> 100 * a[i]])
    IN  m[1] + (IF 2 * m[2] >= FloatBase THEN 1 ELSE 0)

hundredths_of(a) ==
    IF TupleLess(a, FloatZero) THEN -hundredths_of_abs(float_neg(a))
    ELSE hundredths_of_abs(a)

-----------------------------------------------------------------------------
(* rules.py *)

\* round(value, SCORE_DECIMALS) of the value num/den hundredths (num >= 0,
\* den > 0): to the nearest hundredth.  A value exactly half way goes to the
\* even hundredth: that is what Python's round gives the doubles the model
\* meets (5.005 -> 5.0 and 4.995 -> 5.0 with the points of RawPoints and one
\* or two judges).
round_score(num, den) ==
    LET q == num \div den
        r == num % den
    IN  IF 2 * r < den THEN q
        ELSE IF 2 * r > den THEN q + 1
        ELSE IF q % 2 = 0 THEN q ELSE q + 1

\* Variant: the better half to Group A, the other half to Group B.
assign_groups_halves(ordered) ==
    [A |-> [k \in 1..((Len(ordered) + 1) \div 2) |-> ordered[k]],
     B |-> [k \in 1..(Len(ordered) \div 2) |-> ordered[k + (Len(ordered) + 1) \div 2]]]

\* Rank 1 -> A, rank 2 -> B, rank 3 -> A, ...
assign_groups_alternating(ordered) ==
    LET idx(par) == {i \in 1..Len(ordered) : i % 2 = par}
        pick(par) == [k \in 1..Cardinality(idx(par)) |->
                        ordered[CHOOSE i \in idx(par) :
                                  Cardinality({j \in idx(par) : j < i}) = k - 1]]
    IN  [A |-> pick(1), B |-> pick(0)]

\* itertools.combinations(driver_ids, 2): (ids[i], ids[j]) for i < j, by i, then j.
IndexPairs(n) == {p \in (1..n) \X (1..n) : p[1] < p[2]}

PairsAt(ids, ord) == [k \in 1..Len(ord) |-> <<ids[ord[k][1]], ids[ord[k][2]]>>]

\* Variant: each driver meets only the next one of the list.
build_neighbour_pairs(ids) ==
    [k \in 1..(Len(ids) - 1) |-> <<ids[k], ids[k + 1]>>]

build_round_robin_pairs(ids) ==
    PairsAt(ids, SortByKey(IndexPairs(Len(ids)), [p \in IndexPairs(Len(ids)) |-> p]))

RemoveAt(s, i) == [k \in 1..(Len(s) - 1) |-> IF k < i THEN s[k] ELSE s[k + 1]]

\* The sort key of a candidate pair: (overlap with the last battle, a, b).
overlap_key(pair, last_drivers) ==
    << Cardinality({pair[1], pair[2]} \cap last_drivers), pair[1], pair[2] >>

\* Variant: the first remaining pair is taken, whatever it shares with the
\* last battle.
best_index_first(remaining, last_drivers) == 1

\* ranked[0][0]: sorted() is stable, so among equal keys the pair that comes
\* first in `remaining` is taken.
best_index(remaining, last_drivers) ==
    CHOOSE i \in 1..Len(remaining) :
        \A j \in 1..Len(remaining) :
            \/ TupleLess(overlap_key(remaining[i], last_drivers),
                         overlap_key(remaining[j], last_drivers))
            \/ /\ overlap_key(remaining[i], last_drivers)
                     = overlap_key(remaining[j], last_drivers)
               /\ i <= j

\* The while loop of order_battles_avoid_consecutive.
RECURSIVE order_loop(_, _, _)
RECURSIVE order_step(_, _, _)
order_step(remaining, ordered, best_idx) ==
    order_loop(RemoveAt(remaining, best_idx), Append(ordered, remaining[best_idx]),
               {remaining[best_idx][1], remaining[best_idx][2]})

order_loop(remaining, ordered, last_drivers) ==
    IF remaining = <<>> THEN ordered
    ELSE order_step(remaining, ordered, best_index(remaining, last_drivers))

order_battles_avoid_consecutive(pairs) == order_loop(pairs, <<>>, {})

\* winner_slot 0 stands for None (a tie).  The arguments are the four run
\* averages as sums over the n judges' points: the average is sum/n.
RoundResolution(driver1_round, driver2_round) ==
    [winner_slot |-> IF driver1_round = driver2_round THEN 0
                     ELSE IF driver1_round > driver2_round THEN 1 ELSE 2,
     driver1_round_score |-> driver1_round,
     driver2_round_score |-> driver2_round]

resolve_two_run_round(run1_driver1, run1_driver2, run2_driver1, run2_driver2, n) ==
    RoundResolution(round_score(run1_driver1 + run2_driver1, 2 * n),
                    round_score(run1_driver2 + run2_driver2, 2 * n))

\* Variant: the 48-point step reaches place 9.
competition_points_for_place_to_9(place) ==
    IF place = 1 THEN 100
    ELSE IF place = 2 THEN 88
    ELSE IF place = 3 THEN 76
    ELSE IF place = 4 THEN 64
    ELSE IF 5 <= place /\ place <= 9 THEN 48
    ELSE IF 10 <= place /\ place <= 16 THEN 32
    ELSE IF 17 <= place /\ place <= 32 THEN 16
    ELSE 0

competition_points_for_place(place) ==
    IF place = 1 THEN 100
    ELSE IF place = 2 THEN 88
    ELSE IF place = 3 THEN 76
    ELSE IF place = 4 THEN 64
    ELSE IF 5 <= place /\ place <= 8 THEN 48
    ELSE IF 9 <= place /\ place <= 16 THEN 32
    ELSE IF 17 <= place /\ place <= 32 THEN 16
    ELSE 0

qualifying_bonus_for_rank(rank) ==
    IF rank = 1 THEN 3
    ELSE IF rank = 2 THEN 2
    ELSE IF rank = 3 THEN 1
    ELSE 0

-----------------------------------------------------------------------------
(* The rows the model starts from *)

\* drivers.number by driver id: unique, at least 1, and not in id order.
DriverNumbers == <<6, 4, 2, 7, 5, 3, 1, 8>>

driver_number(d) == DriverNumbers[d]

\* CompetitionDriver(competition_id, driver_id) with the column defaults.
NewEntry ==
    [group_name |-> "", qualifying_rank |-> 0, qualifying_score |-> 0,
     final_place |-> 0, competition_points |-> 0, qualifying_points |-> 0,
     total_points |-> 0]

\* Variant: a battle is created already decided for its first driver.
NewBattleDecided(competition_id, stage, group_name, order_index, driver1_id, driver2_id) ==
    [competition_id |-> competition_id, stage |-> stage, group_name |-> group_name,
     order_index |-> order_index, driver1_id |-> driver1_id,
     driver2_id |-> driver2_id, status |-> "completed",
     winner_id |-> driver1_id, loser_id |-> driver2_id]

\* Battle(...) as start_tournament and the progression triggers create it.
NewBattle(c, stage, group_name, order_index, driver1_id, driver2_id) ==
    [competition_id |-> c, stage |-> stage, group_name |-> group_name,
     order_index |-> order_index, driver1_id |-> driver1_id,
     driver2_id |-> driver2_id, status |-> "pending",
     winner_id |-> 0, loser_id |-> 0]

NoProgression ==
    [created_semifinals |-> FALSE, created_finals |-> FALSE,
     finalized_competition |-> FALSE]

\* A command raised HTTPException: nothing is committed.
Rejected(D, detail) ==
    [ok |-> FALSE, detail |-> detail, db |-> D, progression |-> NoProgression]

-----------------------------------------------------------------------------
(* services.py: lookups and qualifying *)

competition_driver_ids(D, c) == DOMAIN D.entries[c]

competition_judge_ids(D, c) == D.judges[c]

\* run_scores[driver_id][run_number], as the keys of the score rows
run_values(D, c, d, run) ==
    {k \in DOMAIN D.qscores : k[1] = c /\ k[2] = d /\ k[4] = run}

\* round_score(average(values)) if values else 0.0
run_average(D, keys) ==
    IF keys = {} THEN 0
    ELSE round_score(SumFn(D.qscores, keys), Cardinality(keys))

\* total and second_best of the runs that have scores (n1, n2: their counts)
\* Variant: the mean of the two runs when both have scores.
best_run_mean(n1, n2, run1_avg, run2_avg) ==
    IF n1 > 0 /\ n2 > 0 THEN round_score(run1_avg + run2_avg, 2)
    ELSE IF n1 > 0 THEN run1_avg
    ELSE IF n2 > 0 THEN run2_avg
    ELSE 0

best_run(n1, n2, run1_avg, run2_avg) ==
    IF n1 > 0 /\ n2 > 0 THEN (IF run1_avg >= run2_avg THEN run1_avg ELSE run2_avg)
    ELSE IF n1 > 0 THEN run1_avg
    ELSE IF n2 > 0 THEN run2_avg
    ELSE 0

second_best_run(n1, n2, run1_avg, run2_avg) ==
    IF n1 > 0 /\ n2 > 0 THEN (IF run1_avg <= run2_avg THEN run1_avg ELSE run2_avg)
    ELSE 0

leaderboard_item(d, judge_count, n1, n2, run1_avg, run2_avg) ==
    [driver_id |-> d,
     driver_number |-> driver_number(d),
     run1_avg |-> run1_avg,
     run2_avg |-> run2_avg,
     qualifying_score |-> best_run(n1, n2, run1_avg, run2_avg),
     second_best_run |-> second_best_run(n1, n2, run1_avg, run2_avg),
     is_complete |-> judge_count > 0 /\ n1 = judge_count /\ n2 = judge_count]

leaderboard_row(D, c, d) ==
    leaderboard_item(d, Cardinality(competition_judge_ids(D, c)),
                     Cardinality(run_values(D, c, d, 1)),
                     Cardinality(run_values(D, c, d, 2)),
                     run_average(D, run_values(D, c, d, 1)),
                     run_average(D, run_values(D, c, d, 2)))

\* Variant: the second best run is not part of the key.
leaderboard_key_without_second_best(x) ==
    << -x.qualifying_score, 0, -x.run2_avg, -x.run1_avg, x.driver_number >>

leaderboard_key(x) ==
    << -x.qualifying_score, -x.second_best_run, -x.run2_avg, -x.run1_avg,
       x.driver_number >>

sort_leaderboard(items) == SortByKey(items, [x \in items |-> leaderboard_key(x)])

\* for idx, row in enumerate(items, start=1): row["rank"] = idx
with_rank(items) == [idx \in 1..Len(items) |-> [rank |-> idx] @@ items[idx]]

\* The leaderboard rows in rank order.
qualifying_leaderboard(D, c) ==
    with_rank(sort_leaderboard({leaderboard_row(D, c, d) :
                                   d \in competition_driver_ids(D, c)}))

\* The group battles of one group, in schedule order.
scheduled_battles(c, group_name, ordered_pairs) ==
    [idx \in 1..Len(ordered_pairs) |->
        NewBattle(c, "group", group_name, idx,
                  ordered_pairs[idx][1], ordered_pairs[idx][2])]

group_battles(c, group_name, ids) ==
    scheduled_battles(c, group_name,
                      order_battles_avoid_consecutive(build_round_robin_pairs(ids)))

\* entry.qualifying_rank, .qualifying_score and .group_name of start_tournament
ranked_entry(e, row, groups) ==
    [e EXCEPT !.qualifying_rank = row.rank,
              !.qualifying_score = row.qualifying_score,
              !.group_name = IF row.driver_id \in SeqToSet(groups.A) THEN "A" ELSE "B"]

lb_row_of(lb, d) == lb[CHOOSE i \in 1..Len(lb) : lb[i].driver_id = d]

start_with_groups(D, c, lb, groups) ==
    IF Len(groups.A) < 2 \/ Len(groups.B) < 2
    THEN Rejected(D, "Need at least 2 drivers in each group for semifinals")
    ELSE [ok |-> TRUE, detail |-> "",
          db |-> [D EXCEPT
                    !.entries[c] = [d \in DOMAIN D.entries[c] |->
                                      ranked_entry(D.entries[c][d], lb_row_of(lb, d), groups)],
                    !.battles = D.battles \o group_battles(c, "A", groups.A)
                                          \o group_battles(c, "B", groups.B),
                    !.status[c] = "tournament"],
          progression |-> NoProgression]

\* Variant: the leaderboard rows are not asked whether they are complete.
start_with_leaderboard_incomplete(D, c, lb) ==
    IF Len(lb) < 4
    THEN Rejected(D, "At least 4 drivers are required to start tournament")
    ELSE start_with_groups(D, c, lb,
             assign_groups_alternating([i \in 1..Len(lb) |-> lb[i].driver_id]))

start_with_leaderboard(D, c, lb) ==
    IF Len(lb) < 4
    THEN Rejected(D, "At least 4 drivers are required to start tournament")
    ELSE IF \E i \in 1..Len(lb) : ~lb[i].is_complete
    THEN Rejected(D, "Qualifying is not complete")
    ELSE start_with_groups(D, c, lb,
             assign_groups_alternating([i \in 1..Len(lb) |-> lb[i].driver_id]))

\* Variant: a completed competition can be started again.
start_tournament_after_completed(D, c) ==
    IF c \notin DOMAIN D.status THEN Rejected(D, "Competition not found")
    ELSE IF D.status[c] = "tournament" THEN Rejected(D, "Tournament already started")
    ELSE start_with_leaderboard(D, c, qualifying_leaderboard(D, c))

start_tournament(D, c) ==
    IF c \notin DOMAIN D.status THEN Rejected(D, "Competition not found")
    ELSE IF D.status[c] = "completed" THEN Rejected(D, "Competition already completed")
    ELSE IF D.status[c] = "tournament" THEN Rejected(D, "Tournament already started")
    ELSE start_with_leaderboard(D, c, qualifying_leaderboard(D, c))

-----------------------------------------------------------------------------
(* services.py: battles *)

battle_rounds(D, b) == {k[2] : k \in {x \in DOMAIN D.bscores : x[1] = b}}

\* max(omt_round) over the battle's score rows, 0 when it has none.
battle_current_omt_round(D, b) ==
    IF battle_rounds(D, b) = {} THEN 0 ELSE SetMax(battle_rounds(D, b))

\* RoundAverages(0.0, 0.0, 0.0, 0.0, False)
IncompleteRound ==
    [run1_driver1 |-> 0, run1_driver2 |-> 0, run2_driver1 |-> 0,
     run2_driver2 |-> 0, n |-> 1, complete |-> FALSE]

round_rows(D, b, omt_round, run) ==
    {k \in DOMAIN D.bscores : k[1] = b /\ k[2] = omt_round /\ k[3] = run}

driver1_points_of(D) == [k \in DOMAIN D.bscores |-> D.bscores[k].driver1_points]

driver2_points_of(D) == [k \in DOMAIN D.bscores |-> D.bscores[k].driver2_points]

\* The four averages are kept as the sums over the run's rows together with
\* their count n (each average is sum/n).
round_averages_of(D, run1_rows, run2_rows, judges_needed) ==
    IF run1_rows = {} /\ run2_rows = {} THEN IncompleteRound
    ELSE IF \/ Cardinality(run1_rows) # judges_needed
            \/ Cardinality(run2_rows) # judges_needed
    THEN IncompleteRound
    ELSE [run1_driver1 |-> SumFn(driver1_points_of(D), run1_rows),
          run1_driver2 |-> SumFn(driver2_points_of(D), run1_rows),
          run2_driver1 |-> SumFn(driver1_points_of(D), run2_rows),
          run2_driver2 |-> SumFn(driver2_points_of(D), run2_rows),
          n |-> judges_needed,
          complete |-> TRUE]

_round_averages(D, b, omt_round) ==
    round_averages_of(D, round_rows(D, b, omt_round, 1), round_rows(D, b, omt_round, 2),
        Cardinality(competition_judge_ids(D, D.battles[b].competition_id)))

resolve_round(round_data) ==
    resolve_two_run_round(round_data.run1_driver1, round_data.run1_driver2,
                          round_data.run2_driver1, round_data.run2_driver2,
                          round_data.n)

\* Variant: the view never asks for a further round.
next_required_round_same(battle, current_round, round_data) == current_round

\* next_round of battle_state
next_required_round(battle, current_round, round_data) ==
    IF /\ round_data.complete
       /\ battle.status # "completed"
       /\ resolve_round(round_data).winner_slot = 0
    THEN current_round + 1
    ELSE current_round

battle_view(b, battle, current_round, next_round) ==
    [id |-> b, stage |-> battle.stage, group_name |-> battle.group_name,
     order_index |-> battle.order_index, driver1_id |-> battle.driver1_id,
     driver2_id |-> battle.driver2_id, status |-> battle.status,
     winner_id |-> battle.winner_id, loser_id |-> battle.loser_id,
     current_omt_round |-> current_round,
     next_required_omt_round |-> next_round]

battle_state(D, b) ==
    battle_view(b, D.battles[b], battle_current_omt_round(D, b),
                next_required_round(D.battles[b], battle_current_omt_round(D, b),
                    _round_averages(D, b, battle_current_omt_round(D, b))))

\* Variant: the battles of every competition are taken.
stage_battles_of_any(D, c, stage, group_name) ==
    {b \in 1..Len(D.battles) :
        /\ D.battles[b].stage = stage
        /\ (group_name # "" => D.battles[b].group_name = group_name)}

\* The ids of the competition's battles of a stage (and group, "" for any).
stage_battles(D, c, stage, group_name) ==
    {b \in 1..Len(D.battles) :
        /\ D.battles[b].competition_id = c
        /\ D.battles[b].stage = stage
        /\ (group_name # "" => D.battles[b].group_name = group_name)}

_all_battles_completed(D, c, stage, group_name) ==
    /\ stage_battles(D, c, stage, group_name) # {}
    /\ \A b \in stage_battles(D, c, stage, group_name) : D.battles[b].status = "completed"

_has_stage(D, c, stage) == Cardinality(stage_battles(D, c, stage, "")) > 0

decisive_scores_of(round_data) ==
    IF ~round_data.complete THEN <<0, 0>>
    ELSE << resolve_round(round_data).driver1_round_score,
            resolve_round(round_data).driver2_round_score >>

_battle_decisive_round_scores(D, b) ==
    IF D.battles[b].status # "completed" THEN <<0, 0>>
    ELSE decisive_scores_of(_round_averages(D, b, battle_current_omt_round(D, b)))

-----------------------------------------------------------------------------
(* services.py: group standings *)

group_driver_ids(D, c, group_name) ==
    {d \in DOMAIN D.entries[c] : D.entries[c][d].group_name = group_name}

\* The group's battles that the loop of group_standings does not skip.
counted_battles(D, c, group_name) ==
    {b \in stage_battles(D, c, "group", group_name) :
        /\ D.battles[b].status = "completed"
        /\ D.battles[b].winner_id # 0
        /\ D.battles[b].loser_id # 0}

decisive_scores(D, counted) ==
    [b \in counted |-> _battle_decisive_round_scores(D, b)]

\* stats[...]["points_for"] += score, from 0.0, over the counted battles up to
\* battle b in the order of the battle rows: points_for (mine = 1) or
\* points_against (mine = 2) of driver d, as the float the loop leaves.
RECURSIVE points_sum_to(_, _, _, _, _, _)
points_sum_to(D, counted, score, d, mine, b) ==
    IF b = 0 THEN FloatZero
    ELSE IF b \in counted /\ D.battles[b].driver1_id = d
    THEN float_add(points_sum_to(D, counted, score, d, mine, b - 1),
                   float_of(score[b][mine]))
    ELSE IF b \in counted /\ D.battles[b].driver2_id = d
    THEN float_add(points_sum_to(D, counted, score, d, mine, b - 1),
                   float_of(score[b][3 - mine]))
    ELSE points_sum_to(D, counted, score, d, mine, b - 1)

points_sum(D, counted, score, d, mine) ==
    points_sum_to(D, counted, score, d, mine, Len(D.battles))

standing_stats(D, c, counted, score, d) ==
    [driver_id |-> d,
     driver_number |-> driver_number(d),
     wins |-> Cardinality({b \in counted : D.battles[b].winner_id = d}),
     losses |-> Cardinality({b \in counted : D.battles[b].loser_id = d}),
     points_for |-> points_sum(D, counted, score, d, 1),
     points_against |-> points_sum(D, counted, score, d, 2),
     qualifying_rank |-> IF D.entries[c][d].qualifying_rank # 0
                         THEN D.entries[c][d].qualifying_rank ELSE 9999]

\* (-wins, -(points_for - points_against), -points_for, qualifying_rank,
\* driver_number), the two floats by their limbs.
standings_key(s) ==
    << -s.wins >> \o float_neg(float_sub(s.points_for, s.points_against))
                 \o float_neg(s.points_for)
                 \o << s.qualifying_rank, s.driver_number >>

\* ranked.sort(key=...): each row's key is computed once.
keyed_standings(stats) == {<<standings_key(s), s>> : s \in stats}

sorted_by_first(keyed) == SortByKey(keyed, [x \in keyed |-> x[1]])

rows_of(sorted) == [i \in 1..Len(sorted) |-> sorted[i][2]] \o <<>>

sort_standings(stats) == rows_of(sorted_by_first(keyed_standings(stats)))

\* row["rank"] = idx, and the three floats rounded to hundredths
with_standing_rank(ranked) ==
    [idx \in 1..Len(ranked) |->
        [rank |-> idx,
         point_diff |-> hundredths_of(float_sub(ranked[idx].points_for,
                                                ranked[idx].points_against))]
        @@ [ranked[idx] EXCEPT !.points_for = hundredths_of(@),
                               !.points_against = hundredths_of(@)]]
        \o <<>>

group_stats(D, c, ids, counted) ==
    {standing_stats(D, c, counted, decisive_scores(D, counted), d) : d \in ids}

\* The standings rows of a group in rank order.
group_standings(D, c, group_name) ==
    with_standing_rank(sort_standings(
        group_stats(D, c, group_driver_ids(D, c, group_name),
                    counted_battles(D, c, group_name))))

-----------------------------------------------------------------------------
(* services.py: progression *)

\* A trigger whose precondition is unmet: return False.
NotApplied(D) == [db |-> D, created |-> FALSE]

\* SF1: A1 vs B2; SF2: B1 vs A2
\* Variant: each semifinal pairs the top two of one group.
semifinal_battles_in_group(c, group_a, group_b) ==
    << NewBattle(c, "semifinal", "", 1, group_a[1].driver_id, group_a[2].driver_id),
       NewBattle(c, "semifinal", "", 2, group_b[1].driver_id, group_b[2].driver_id) >>

\* Variant: the second semifinal takes the third of Group A when there is one.
semifinal_battles_third(c, group_a, group_b) ==
    << NewBattle(c, "semifinal", "", 1, group_a[1].driver_id, group_b[2].driver_id),
       NewBattle(c, "semifinal", "", 2, group_b[1].driver_id,
                 group_a[IF Len(group_a) >= 3 THEN 3 ELSE 2].driver_id) >>

semifinal_battles(c, group_a, group_b) ==
    << NewBattle(c, "semifinal", "", 1, group_a[1].driver_id, group_b[2].driver_id),
       NewBattle(c, "semifinal", "", 2, group_b[1].driver_id, group_a[2].driver_id) >>

create_semifinals(D, c, group_a, group_b) ==
    IF Len(group_a) < 2 \/ Len(group_b) < 2 THEN NotApplied(D)
    ELSE [db |-> [D EXCEPT !.battles = D.battles \o semifinal_battles(c, group_a, group_b)],
          created |-> TRUE]

\* Variant: the semifinals wait for Group A only.
_try_create_semifinals_group_a_only(D, c) ==
    IF _has_stage(D, c, "semifinal") THEN NotApplied(D)
    ELSE IF ~_all_battles_completed(D, c, "group", "A") THEN NotApplied(D)
    ELSE create_semifinals(D, c, group_standings(D, c, "A"), group_standings(D, c, "B"))

_try_create_semifinals(D, c) ==
    IF _has_stage(D, c, "semifinal") THEN NotApplied(D)
    ELSE IF ~_all_battles_completed(D, c, "group", "A") THEN NotApplied(D)
    ELSE IF ~_all_battles_completed(D, c, "group", "B") THEN NotApplied(D)
    ELSE create_semifinals(D, c, group_standings(D, c, "A"), group_standings(D, c, "B"))

battle_rows_at(D, ids) == [i \in 1..Len(ids) |-> D.battles[ids[i]]]

\* select(Battle)...order_by(Battle.order_index.asc()); equal indexes by id
ordered_stage_battles(D, c, stage) ==
    battle_rows_at(D, SortByKey(stage_battles(D, c, stage, ""),
                       [b \in stage_battles(D, c, stage, "") |->
                          <<D.battles[b].order_index, b>>]))

\* Variant: the final takes the winner of SF1 and the loser of SF2.
final_battles_mixed(c, semis) ==
    << NewBattle(c, "third_place", "", 1, semis[1].loser_id, semis[2].winner_id),
       NewBattle(c, "final", "", 1, semis[1].winner_id, semis[2].loser_id) >>

final_battles(c, semis) ==
    << NewBattle(c, "third_place", "", 1, semis[1].loser_id, semis[2].loser_id),
       NewBattle(c, "final", "", 1, semis[1].winner_id, semis[2].winner_id) >>

create_final_and_third_place(D, c, semis) ==
    IF Len(semis) # 2 THEN NotApplied(D)
    ELSE IF \E i \in 1..2 : semis[i].winner_id = 0 \/ semis[i].loser_id = 0
    THEN NotApplied(D)
    ELSE [db |-> [D EXCEPT !.battles = D.battles \o final_battles(c, semis)],
          created |-> TRUE]

\* Variant: the final and third-place battles are created again while they
\* exist.
_try_create_final_and_third_place_again(D, c) ==
    IF ~_has_stage(D, c, "semifinal") THEN NotApplied(D)
    ELSE IF ~_all_battles_completed(D, c, "semifinal", "") THEN NotApplied(D)
    ELSE create_final_and_third_place(D, c, ordered_stage_battles(D, c, "semifinal"))

_try_create_final_and_third_place(D, c) ==
    IF ~_has_stage(D, c, "semifinal") THEN NotApplied(D)
    ELSE IF ~_all_battles_completed(D, c, "semifinal", "") THEN NotApplied(D)
    ELSE IF _has_stage(D, c, "final") \/ _has_stage(D, c, "third_place")
    THEN NotApplied(D)
    ELSE create_final_and_third_place(D, c, ordered_stage_battles(D, c, "semifinal"))

\* Variant: the merge ignores the group rank.
merge_remaining_by_qualifying(both, excluded_driver_ids) ==
    SortByKey({i \in 1..Len(both) : both[i].driver_id \notin excluded_driver_ids},
              [i \in 1..Len(both) |->
                 <<both[i].qualifying_rank, both[i].driver_number, i>>])

\* merged.sort(key=(rank, qualifying_rank, driver_number)); the sort is
\* stable, so rows with equal keys keep their order in standings_a + standings_b
merge_remaining(both, excluded_driver_ids) ==
    SortByKey({i \in 1..Len(both) : both[i].driver_id \notin excluded_driver_ids},
              [i \in 1..Len(both) |->
                 <<both[i].rank, both[i].qualifying_rank, both[i].driver_number, i>>])

driver_ids_at(both, order) == [k \in 1..Len(order) |-> both[order[k]].driver_id]

remaining_of(both, excluded_driver_ids) ==
    driver_ids_at(both, merge_remaining(both, excluded_driver_ids))

\* Variant: only Group A's standings are merged.
_remaining_order_after_top4_group_a(D, c, excluded_driver_ids) ==
    remaining_of(group_standings(D, c, "A"), excluded_driver_ids)

_remaining_order_after_top4(D, c, excluded_driver_ids) ==
    remaining_of(group_standings(D, c, "A") \o group_standings(D, c, "B"),
                 excluded_driver_ids)

\* Points are whole numbers; the entries keep hundredths.
Hundredths(points) == points * 100

\* place_map[d]: in the dict literal a later key overwrites an earlier equal
\* one; the remainder takes the places from 5 on.
\* Variant: the third-place battle gives place 3 to its loser.
place_of_third_swapped(d, final_battle, third_battle, remainder) ==
    IF \E k \in 1..Len(remainder) : remainder[k] = d
    THEN 4 + SetMax({k \in 1..Len(remainder) : remainder[k] = d})
    ELSE IF d = third_battle.loser_id THEN 3
    ELSE IF d = third_battle.winner_id THEN 4
    ELSE IF d = final_battle.loser_id THEN 2
    ELSE 1

place_of(d, final_battle, third_battle, remainder) ==
    IF \E k \in 1..Len(remainder) : remainder[k] = d
    THEN 4 + SetMax({k \in 1..Len(remainder) : remainder[k] = d})
    ELSE IF d = third_battle.loser_id THEN 4
    ELSE IF d = third_battle.winner_id THEN 3
    ELSE IF d = final_battle.loser_id THEN 2
    ELSE 1

entry_points(e, place, q_points, c_points) ==
    [e EXCEPT !.final_place = place,
              !.competition_points = c_points,
              !.qualifying_points = q_points,
              !.total_points = c_points + q_points]

\* Variant: the qualifying points are the qualifying score, without the bonus.
finalized_entry_no_bonus(e, place) ==
    entry_points(e, place, e.qualifying_score,
        Hundredths(competition_points_for_place(place)))

finalized_entry(e, place) ==
    entry_points(e, place,
        e.qualifying_score + Hundredths(qualifying_bonus_for_rank(
            IF e.qualifying_rank # 0 THEN e.qualifying_rank ELSE 9999)),
        Hundredths(competition_points_for_place(place)))

top4_of(final_battle, third_battle) ==
    {final_battle.winner_id, final_battle.loser_id,
     third_battle.winner_id, third_battle.loser_id}

finalize_places(D, c, final_battle, third_battle, remainder) ==
    [db |-> [D EXCEPT
               !.entries[c] =
                   [d \in DOMAIN D.entries[c] |->
                      IF d \in top4_of(final_battle, third_battle) \cup SeqToSet(remainder)
                      THEN finalized_entry(D.entries[c][d],
                               place_of(d, final_battle, third_battle, remainder))
                      ELSE D.entries[c][d]],
               !.status[c] = "completed"],
     created |-> TRUE]

finalize_with(D, c, final_battle, third_battle) ==
    IF 0 \in top4_of(final_battle, third_battle) THEN NotApplied(D)
    ELSE finalize_places(D, c, final_battle, third_battle,
             _remaining_order_after_top4(D, c, top4_of(final_battle, third_battle)))

\* db.scalar(select(Battle)...): the first row of the stage
first_battle(D, c, stage) ==
    D.battles[CHOOSE b \in stage_battles(D, c, stage, "") :
                 \A o \in stage_battles(D, c, stage, "") : b <= o]

\* Variant: a completed competition is finalized again.
_finalize_competition_if_ready_again(D, c) ==
    IF ~_all_battles_completed(D, c, "final", "") THEN NotApplied(D)
    ELSE IF ~_all_battles_completed(D, c, "third_place", "") THEN NotApplied(D)
    ELSE finalize_with(D, c, first_battle(D, c, "final"), first_battle(D, c, "third_place"))

_finalize_competition_if_ready(D, c) ==
    IF D.status[c] = "completed" THEN NotApplied(D)
    ELSE IF ~_all_battles_completed(D, c, "final", "") THEN NotApplied(D)
    ELSE IF ~_all_battles_completed(D, c, "third_place", "") THEN NotApplied(D)
    ELSE finalize_with(D, c, first_battle(D, c, "final"), first_battle(D, c, "third_place"))

progress_result(semis, finals, finalize) ==
    [db |-> finalize.db,
     progression |-> [created_semifinals |-> semis.created,
                      created_finals |-> finals.created,
                      finalized_competition |-> finalize.created]]

progress_finalize(c, semis, finals) ==
    progress_result(semis, finals, _finalize_competition_if_ready(finals.db, c))

progress_finals(c, semis) ==
    progress_finalize(c, semis, _try_create_final_and_third_place(semis.db, c))

try_progress_competition(D, c) == progress_finals(c, _try_create_semifinals(D, c))

-----------------------------------------------------------------------------
(* services.py: a battle run score *)

\* Variant: a tied round opens no further round.
max_allowed_of_closed(current, current_round_data) == current

\* Variant: the next round is open whatever the current one holds.
max_allowed_of_next(current, current_round_data) == current + 1

max_allowed_of(current, current_round_data) ==
    IF current_round_data.complete
    THEN IF resolve_round(current_round_data).winner_slot = 0
         THEN current + 1 ELSE current
    ELSE current

\* max_allowed of upsert_battle_run_score: the next round opens when the
\* current one is complete and tied.
max_allowed_round(D, b) ==
    max_allowed_of(battle_current_omt_round(D, b),
                   _round_averages(D, b, battle_current_omt_round(D, b)))

\* existing.driverN_points = ... or db.add(BattleRunScore(...)), then flush
write_run_score(D, key, driver1_points, driver2_points) ==
    IF key \in DOMAIN D.bscores
    THEN [D EXCEPT !.bscores[key] =
             [driver1_points |-> driver1_points, driver2_points |-> driver2_points]]
    ELSE [D EXCEPT !.bscores =
             (key :> [driver1_points |-> driver1_points,
                      driver2_points |-> driver2_points]) @@ D.bscores]

\* Variant: a decided round always goes to driver 1.
settle_with_driver1(D, b, winner_slot) ==
    IF winner_slot = 0 THEN D
    ELSE [D EXCEPT !.battles[b].winner_id = D.battles[b].driver1_id,
                   !.battles[b].loser_id = D.battles[b].driver2_id,
                   !.battles[b].status = "completed"]

\* Variant: the loser is the second driver in both branches.
settle_with_same_loser(D, b, winner_slot) ==
    IF winner_slot = 0 THEN D
    ELSE IF winner_slot = 1
    THEN [D EXCEPT !.battles[b].winner_id = D.battles[b].driver1_id,
                   !.battles[b].loser_id = D.battles[b].driver2_id,
                   !.battles[b].status = "completed"]
    ELSE [D EXCEPT !.battles[b].winner_id = D.battles[b].driver2_id,
                   !.battles[b].loser_id = D.battles[b].driver2_id,
                   !.battles[b].status = "completed"]

settle_with(D, b, winner_slot) ==
    IF winner_slot = 0 THEN D
    ELSE IF winner_slot = 1
    THEN [D EXCEPT !.battles[b].winner_id = D.battles[b].driver1_id,
                   !.battles[b].loser_id = D.battles[b].driver2_id,
                   !.battles[b].status = "completed"]
    ELSE [D EXCEPT !.battles[b].winner_id = D.battles[b].driver2_id,
                   !.battles[b].loser_id = D.battles[b].driver1_id,
                   !.battles[b].status = "completed"]

\* Variant: a fully scored round never settles the battle.
settle_round_data_never(D, b, round_data) == D

settle_round_data(D, b, round_data) ==
    IF ~round_data.complete THEN D
    ELSE settle_with(D, b, resolve_round(round_data).winner_slot)

\* "Try to settle the submitted round."
settle_round(D, b, omt_round) ==
    settle_round_data(D, b, _round_averages(D, b, omt_round))

Accepted(progressed) ==
    [ok |-> TRUE, detail |-> "", db |-> progressed.db,
     progression |-> progressed.progression]

\* Variant: a completed battle still takes scores.
battle_score_error_reopened(D, b, judge_id, omt_round, driver1_points, driver2_points) ==
    IF b \notin 1..Len(D.battles) THEN "Battle not found"
    ELSE IF driver1_points + driver2_points # 1000
    THEN "Judge points must sum to exactly 10"
    ELSE IF judge_id \notin competition_judge_ids(D, D.battles[b].competition_id)
    THEN "Judge not assigned to battle competition"
    ELSE IF omt_round > max_allowed_round(D, b) THEN "OMT round is not open yet"
    ELSE ""

\* Variant: the points may sum to anything.
battle_score_error_any_sum(D, b, judge_id, omt_round, driver1_points, driver2_points) ==
    IF b \notin 1..Len(D.battles) THEN "Battle not found"
    ELSE IF D.battles[b].status = "completed" THEN "Battle already completed"
    ELSE IF judge_id \notin competition_judge_ids(D, D.battles[b].competition_id)
    THEN "Judge not assigned to battle competition"
    ELSE IF omt_round > max_allowed_round(D, b) THEN "OMT round is not open yet"
    ELSE ""

\* The checks of upsert_battle_run_score, in its order; "" when it raises
\* nothing.  driver1_points, driver2_points are the rounded ones.
battle_score_error(D, b, judge_id, omt_round, driver1_points, driver2_points) ==
    IF b \notin 1..Len(D.battles) THEN "Battle not found"
    ELSE IF D.battles[b].status = "completed" THEN "Battle already completed"
    ELSE IF driver1_points + driver2_points # 1000
    THEN "Judge points must sum to exactly 10"
    ELSE IF judge_id \notin competition_judge_ids(D, D.battles[b].competition_id)
    THEN "Judge not assigned to battle competition"
    ELSE IF omt_round > max_allowed_round(D, b) THEN "OMT round is not open yet"
    ELSE ""

\* Variant: the score is stored and settled without the progression check.
store_without_progress(D, b, key, driver1_points, driver2_points) ==
    Accepted([db |-> settle_round(write_run_score(D, key, driver1_points, driver2_points),
                                  b, key[2]),
              progression |-> NoProgression])

store_and_progress(D, b, key, driver1_points, driver2_points) ==
    Accepted(try_progress_competition(
        settle_round(write_run_score(D, key, driver1_points, driver2_points), b, key[2]),
        D.battles[b].competition_id))

\* Variant: the checks run after the row was written.
score_with_error_after_store(D, b, key, driver1_points, driver2_points, error) ==
    IF error # "" /\ b \in 1..Len(D.battles)
    THEN Rejected(write_run_score(D, key, driver1_points, driver2_points), error)
    ELSE IF error # "" THEN Rejected(D, error)
    ELSE store_and_progress(D, b, key, driver1_points, driver2_points)

score_with_error(D, b, key, driver1_points, driver2_points, error) ==
    IF error # "" THEN Rejected(D, error)
    ELSE store_and_progress(D, b, key, driver1_points, driver2_points)

rounded_score(D, b, key, driver1_points, driver2_points) ==
    score_with_error(D, b, key, driver1_points, driver2_points,
        battle_score_error(D, b, key[4], key[2], driver1_points, driver2_points))

\* raw1, raw2: the request's driver1_points, driver2_points in thousandths.
upsert_battle_run_score(D, b, judge_id, omt_round, run_number, raw1, raw2) ==
    rounded_score(D, b, <<b, omt_round, run_number, judge_id>>,
                  round_score(raw1, 10), round_score(raw2, 10))

\* POST /competitions/{id}/progress
manual_progress(D, c) ==
    IF c \notin DOMAIN D.status THEN Rejected(D, "Competition not found")
    ELSE Accepted(try_progress_competition(D, c))

-----------------------------------------------------------------------------
(* The requests the model sends *)

CompetitionIds == {1}

\* driver1_points, driver2_points of a request, in thousandths: a pair that
\* is 6.00/4.00 and sums to 10 only after rounding, 4.01/5.99, and a pair
\* that rounds to 5.99/4.00.  One run of each of the first two makes a round
\* of 5.005 against 4.995, which round_score turns into 5.00 against 5.00.
RawPoints == {<<6004, 4004>>, <<4010, 5990>>, <<5994, 4004>>}

\* Qualifying scores the model starts from, by driver id (hundredths): the
\* first run of driver d by every judge; the second run is 5.00 lower.
QualBase == <<8500, 9000, 7500, 8000, 7000, 6500, 6000, 5500>>

\* Spec: the whole tournament of 4 drivers judged by judge 1; the requests
\* name judge 1 or 2 and score round 0 of any battle.
TournamentJudges == {1}
TournamentJudgeIds == {1, 2}
TournamentRounds == {0}

\* SpecBattle: one group battle in depth, judged by judges 1 and 2; the
\* requests name judge 1, 2 or 3, rounds 0..MaxOmtRound, and battle 1.
BattleJudges == {1, 2}
BattleJudgeIds == {1, 2, 3}
FocusBattles == {1}

OmtRows(D) == {k \in DOMAIN D.bscores : k[2] > 0}

\* The request stays within the bounds of the model.
WithinBounds(D, key) ==
    ~ /\ key[2] > 0
      /\ key \notin DOMAIN D.bscores
      /\ Cardinality(OmtRows(D)) >= MaxOmtRows

-----------------------------------------------------------------------------
(* The state machine *)

Response(op, res) ==
    [op |-> op, ok |-> res.ok, detail |-> res.detail, progression |-> res.progression]

\* db.commit() of the tables a tournament command can write, and the response.
Commit(op, res) ==
    /\ status' = res.db.status
    /\ entries' = res.db.entries
    /\ battles' = res.db.battles
    /\ bscores' = res.db.bscores
    /\ UNCHANGED <<judges, qscores, is_closed>>
    /\ last' = Response(op, res)

\* One competition in qualifying, its judges assigned, n drivers registered
\* and every qualifying run scored.
InitWith(n, judge_ids) ==
    /\ status = (1 :> "qualifying")
    /\ judges = (1 :> judge_ids)
    /\ entries = (1 :> [d \in 1..n |-> NewEntry])
    /\ qscores = [k \in {1} \X (1..n) \X judge_ids \X {1, 2} |->
                    QualBase[k[2]] - 500 * (k[4] - 1)]
    /\ battles = <<>>
    /\ bscores = [k \in {} |-> 0]
    /\ is_closed = FALSE
    /\ last = [op |-> "none", ok |-> TRUE, detail |-> "", progression |-> NoProgression]

Init == InitWith(4, TournamentJudges)

StartTournament(c) ==
    /\ c \in CompetitionIds
    /\ Commit("start", start_tournament(db, c))

SubmitBattleScore(b, judge_id, omt_round, run_number, raw) ==
    /\ WithinBounds(db, <<b, omt_round, run_number, judge_id>>)
    /\ Commit("score", upsert_battle_run_score(db, b, judge_id, omt_round,
                                               run_number, raw[1], raw[2]))

ManualProgress(c) ==
    /\ c \in CompetitionIds
    /\ Commit("progress", manual_progress(db, c))

Next ==
    \/ \E c \in CompetitionIds : StartTournament(c)
    \/ \E b \in 1..(Len(battles) + 1), judge_id \in TournamentJudgeIds,
          omt_round \in TournamentRounds, run_number \in {1, 2}, raw \in RawPoints :
          SubmitBattleScore(b, judge_id, omt_round, run_number, raw)
    \/ \E c \in CompetitionIds : ManualProgress(c)

Spec == Init /\ [][Next]_vars

InitBattle == InitWith(4, BattleJudges)

NextBattle ==
    \/ \E c \in CompetitionIds : StartTournament(c)
    \/ \E b \in FocusBattles, judge_id \in BattleJudgeIds,
          omt_round \in 0..MaxOmtRound, run_number \in {1, 2}, raw \in RawPoints :
          SubmitBattleScore(b, judge_id, omt_round, run_number, raw)
    \/ \E c \in CompetitionIds : ManualProgress(c)

SpecBattle == InitBattle /\ [][NextBattle]_vars

-----------------------------------------------------------------------------
(* main.py, services.py: the commands of the qualifying phase *)

\* The rows of the drivers and judges tables.
DriverIds == 1..Len(DriverNumbers)
JudgeIds == {1, 2, 3}

SetupDone(D) == [ok |-> TRUE, detail |-> "", db |-> D, progression |-> NoProgression]

\* POST /competitions/{id}/drivers; ids is set(payload.driver_ids).
assign_drivers_to_competition(D, c, ids) ==
    IF c \notin DOMAIN D.status THEN Rejected(D, "Competition not found")
    ELSE IF D.status[c] # "qualifying"
    THEN Rejected(D, "Can only modify competition before tournament starts")
    ELSE IF ids = {} THEN Rejected(D, "No driver IDs provided")
    ELSE IF ~(ids \subseteq DriverIds) THEN Rejected(D, "Some driver IDs do not exist")
    ELSE SetupDone([D EXCEPT !.entries[c] =
             [d \in DOMAIN D.entries[c] \cup ids |->
                 IF d \in DOMAIN D.entries[c] THEN D.entries[c][d] ELSE NewEntry]])

\* POST /competitions/{id}/judges; ids is set(payload.judge_ids).
assign_judges_to_competition(D, c, ids) ==
    IF c \notin DOMAIN D.status THEN Rejected(D, "Competition not found")
    ELSE IF D.status[c] # "qualifying"
    THEN Rejected(D, "Can only modify competition before tournament starts")
    ELSE IF ids = {} THEN Rejected(D, "No judge IDs provided")
    ELSE IF ~(ids \subseteq JudgeIds) THEN Rejected(D, "Some judge IDs do not exist")
    ELSE SetupDone([D EXCEPT !.judges[c] = D.judges[c] \cup ids])

\* existing.score = score, or db.add(QualifyingScore(...))
write_qualifying_score(D, key, score) ==
    IF key \in DOMAIN D.qscores
    THEN [D EXCEPT !.qscores[key] = score]
    ELSE [D EXCEPT !.qscores = (key :> score) @@ D.qscores]

\* Variant: a qualifying score is taken in any status.
upsert_qualifying_score_any_status(D, c, driver_id, judge_id, run_number, raw) ==
    IF c \notin DOMAIN D.status THEN Rejected(D, "Competition not found")
    ELSE IF driver_id \notin competition_driver_ids(D, c)
    THEN Rejected(D, "Driver is not registered in this competition")
    ELSE IF judge_id \notin competition_judge_ids(D, c)
    THEN Rejected(D, "Judge is not assigned to this competition")
    ELSE SetupDone(write_qualifying_score(D, <<c, driver_id, judge_id, run_number>>,
                                          round_score(raw, 10)))

\* raw: the request's score in thousandths.
upsert_qualifying_score(D, c, driver_id, judge_id, run_number, raw) ==
    IF c \notin DOMAIN D.status THEN Rejected(D, "Competition not found")
    ELSE IF D.status[c] # "qualifying"
    THEN Rejected(D, "Qualifying scores can only be submitted before tournament starts")
    ELSE IF driver_id \notin competition_driver_ids(D, c)
    THEN Rejected(D, "Driver is not registered in this competition")
    ELSE IF judge_id \notin competition_judge_ids(D, c)
    THEN Rejected(D, "Judge is not assigned to this competition")
    ELSE SetupDone(write_qualifying_score(D, <<c, driver_id, judge_id, run_number>>,
                                          round_score(raw, 10)))

\* db.commit() of the tables a qualifying command can write, and the response.
CommitSetup(op, res) ==
    /\ entries' = res.db.entries
    /\ judges' = res.db.judges
    /\ qscores' = res.db.qscores
    /\ UNCHANGED <<status, battles, bscores, is_closed>>
    /\ last' = Response(op, res)

AssignDrivers(c, ids) ==
    /\ c \in CompetitionIds
    /\ CommitSetup("drivers", assign_drivers_to_competition(db, c, ids))

AssignJudges(c, ids) ==
    /\ c \in CompetitionIds
    /\ CommitSetup("judges", assign_judges_to_competition(db, c, ids))

SubmitQualifyingScore(c, driver_id, judge_id, run_number, raw) ==
    /\ c \in CompetitionIds
    /\ CommitSetup("qualifying_score",
                   upsert_qualifying_score(db, c, driver_id, judge_id, run_number, raw))

-----------------------------------------------------------------------------
(* SpecQualifying: the qualifying phase around the conditions of             *)
(* start_tournament.  Drivers 1 to 3 are registered and fully scored by the  *)
(* judges assigned so far (judge 1 or nobody); drivers 4 and 5 and judge 2   *)
(* can be added, driver 4 scored, and the tournament started.                *)

\* driver_ids of POST /drivers: new drivers, nothing, an unknown driver
DriverIdLists == {{4}, {4, 5}, {}, {9}}

\* judge_ids of POST /judges: a new judge, an unknown judge
JudgeIdLists == {{2}, {4}}

\* driver 4, and driver 6 whom nobody registers
QualifyingDrivers == {4, 6}

\* 80.004 and 70.00, in thousandths
QualifyingScores == {80004, 70000}

InitQualifying == \E judge_ids \in {{}, TournamentJudges} : InitWith(3, judge_ids)

NextQualifying ==
    \/ \E c \in CompetitionIds, ids \in DriverIdLists : AssignDrivers(c, ids)
    \/ \E c \in CompetitionIds, ids \in JudgeIdLists : AssignJudges(c, ids)
    \/ \E c \in CompetitionIds, driver_id \in QualifyingDrivers, judge_id \in JudgeIds,
          run_number \in {1, 2}, raw \in QualifyingScores :
          SubmitQualifyingScore(c, driver_id, judge_id, run_number, raw)
    \/ \E c \in CompetitionIds : StartTournament(c)

SpecQualifying == InitQualifying /\ [][NextQualifying]_vars

-----------------------------------------------------------------------------
(* SpecPlacement: tournaments of 5 to 7 drivers judged by judge 1, the       *)
(* battles scored one after the other as the flow test does: the pending     *)
(* battle with the lowest id takes run 1, then run 2, of round 0, both runs  *)
(* for the same driver, so every battle is decided in round 0.               *)

PlacementDrivers == {5, 6, 7}

\* 6.00/4.00 (sent as 6.004/4.004) or 4.01/5.99
DecisivePoints == {<<6004, 4004>>, <<4010, 5990>>}

PendingBattles == {b \in 1..Len(battles) : battles[b].status = "pending"}

FirstPending == CHOOSE b \in PendingBattles : \A o \in PendingBattles : b <= o

NextRun(b, judge_id) == IF <<b, 0, 1, judge_id>> \in DOMAIN bscores THEN 2 ELSE 1

\* The points favour the driver that the battle's stored scores favour.
SameDirection(b, raw) ==
    \A k \in DOMAIN bscores :
        k[1] = b => ((bscores[k].driver1_points > bscores[k].driver2_points)
                        <=> (raw[1] > raw[2]))

ScoreInOrder(raw) ==
    /\ PendingBattles # {}
    /\ SameDirection(FirstPending, raw)
    /\ Commit("score", upsert_battle_run_score(db, FirstPending, 1, 0,
                                               NextRun(FirstPending, 1), raw[1], raw[2]))

InitPlacement == \E n \in PlacementDrivers : InitWith(n, TournamentJudges)

\* The tournament is started once, from qualifying.
StartFromQualifying(c) ==
    /\ c \in DOMAIN status
    /\ status[c] = "qualifying"
    /\ StartTournament(c)

NextPlacement ==
    \/ \E c \in CompetitionIds : StartFromQualifying(c)
    \/ \E raw \in DecisivePoints : ScoreInOrder(raw)

SpecPlacement == InitPlacement /\ [][NextPlacement]_vars

-----------------------------------------------------------------------------
(* SpecDecisive: the 4-driver, 2-judge tournament in which the judges keep   *)
(* scoring the pending battles, in any order, every score of a battle for    *)
(* the same driver; a judge scores each run of a battle once.                *)

ScoreDecisive(b, judge_id, run_number, raw) ==
    /\ b \in PendingBattles
    /\ <<b, 0, run_number, judge_id>> \notin DOMAIN bscores
    /\ SameDirection(b, raw)
    /\ Commit("score", upsert_battle_run_score(db, b, judge_id, 0, run_number,
                                               raw[1], raw[2]))

NextDecisive ==
    \/ \E c \in CompetitionIds : StartFromQualifying(c)
    \/ \E b \in 1..Len(battles), judge_id \in BattleJudges, run_number \in {1, 2},
          raw \in DecisivePoints : ScoreDecisive(b, judge_id, run_number, raw)

\* A command of NextDecisive can be sent: the guards of its two actions.
DecisiveEnabled ==
    \/ \E c \in CompetitionIds : status[c] = "qualifying"
    \/ \E b \in PendingBattles, judge_id \in BattleJudges, run_number \in {1, 2} :
          <<b, 0, run_number, judge_id>> \notin DOMAIN bscores

\* The judges keep submitting: weak fairness of NextDecisive, its
\* enabledness written out as DecisiveEnabled.
KeepSubmitting == []<>(~DecisiveEnabled) \/ []<><<NextDecisive>>_vars

SpecDecisive == InitBattle /\ [][NextDecisive]_vars /\ KeepSubmitting

-----------------------------------------------------------------------------
(* SpecStart: 4 to 8 drivers fully scored by judge 1; the first run of       *)
(* drivers 1 to 3 is rescored, which reorders the leaderboard and makes      *)
(* ties, and the tournament is started.                                      *)

StartSizes == 4..8

RescoredDrivers == {1, 2, 3}

\* 95.00 and 60.00, in thousandths
RescoredTo == {95000, 60000}

InitStart == \E n \in StartSizes : InitWith(n, TournamentJudges)

NextStart ==
    \/ \E c \in CompetitionIds, driver_id \in RescoredDrivers, raw \in RescoredTo :
          SubmitQualifyingScore(c, driver_id, 1, 1, raw)
    \/ \E c \in CompetitionIds : StartFromQualifying(c)

SpecStart == InitStart /\ [][NextStart]_vars

-----------------------------------------------------------------------------
(* rules.py, services.py, main.py: the classification *)

\* min(scores)
lowest_score(scores) ==
    CHOOSE x \in {scores[c] : c \in DOMAIN scores} :
        \A c \in DOMAIN scores : x <= scores[c]

\* Variant: nothing is dropped.
total_without_drop(scores) == SumFn(scores, DOMAIN scores)

\* scores: a driver's results, by the competition they come from.
total_after_drop_lowest_once(scores) ==
    IF DOMAIN scores = {} THEN 0
    ELSE IF Cardinality(DOMAIN scores) = 1 THEN SumFn(scores, DOMAIN scores)
    ELSE SumFn(scores, DOMAIN scores) - lowest_score(scores)

\* Variant: every competition counts, whatever its status.
all_competitions(D) == DOMAIN D.status

\* Every competition belongs to the one classification.
completed_competitions(D) == {c \in DOMAIN D.status : D.status[c] = "completed"}

\* per_driver_scores[d]: total_points of d's entries in the competitions.
per_driver_scores(D, competition_ids, d) ==
    [c \in {x \in competition_ids : d \in DOMAIN D.entries[x]} |->
        D.entries[c][d].total_points]

classification_row(D, d, scores) ==
    [driver_id |-> d,
     driver_number |-> driver_number(d),
     competitions_count |-> Cardinality(DOMAIN scores),
     raw_total_points |-> SumFn(scores, DOMAIN scores),
     effective_total_points |-> IF D.is_closed THEN total_after_drop_lowest_once(scores)
                                ELSE SumFn(scores, DOMAIN scores),
     drop_lowest_applied |-> D.is_closed /\ Cardinality(DOMAIN scores) > 1]

classification_rows(D, competition_ids) ==
    {classification_row(D, d, per_driver_scores(D, competition_ids, d)) :
        d \in UNION {DOMAIN D.entries[c] : c \in competition_ids}}

classification_key(r) ==
    << -r.effective_total_points, -r.raw_total_points, r.driver_number >>

sort_classification(rows) == SortByKey(rows, [r \in rows |-> classification_key(r)])

\* The standings rows of the classification in rank order.
global_classification_standings(D) ==
    with_rank(sort_classification(classification_rows(D, completed_competitions(D))))

\* POST /classifications/{id}/close
CloseClassification ==
    /\ is_closed' = TRUE
    /\ UNCHANGED <<status, judges, entries, qscores, battles, bscores>>
    /\ last' = [op |-> "close", ok |-> TRUE, detail |-> "", progression |-> NoProgression]

-----------------------------------------------------------------------------
(* SpecSeason: a classification of two competitions judged by judge 1, held  *)
(* one after the other: drivers 1 to 4 enter the first, drivers 2 to 5 the   *)
(* second; the battles are scored in order as in SpecPlacement, and the      *)
(* classification can be closed at any time.                                 *)

SeasonCompetitions == {1, 2}

\* The drivers of competition c.
SeasonDrivers(c) == c..(c + 3)

InitSeason ==
    /\ status = [c \in SeasonCompetitions |-> "qualifying"]
    /\ judges = [c \in SeasonCompetitions |-> TournamentJudges]
    /\ entries = [c \in SeasonCompetitions |-> [d \in SeasonDrivers(c) |-> NewEntry]]
    /\ qscores = [k \in {x \in SeasonCompetitions \X DriverIds \X TournamentJudges \X {1, 2} :
                           x[2] \in SeasonDrivers(x[1])} |->
                    QualBase[k[2]] - 500 * (k[4] - 1)]
    /\ battles = <<>>
    /\ bscores = [k \in {} |-> 0]
    /\ is_closed = FALSE
    /\ last = [op |-> "none", ok |-> TRUE, detail |-> "", progression |-> NoProgression]

\* A competition is started when the ones before it are completed.
StartRound(c) ==
    /\ status[c] = "qualifying"
    /\ \A o \in SeasonCompetitions : o < c => status[o] = "completed"
    /\ Commit("start", start_tournament(db, c))

NextSeason ==
    \/ \E c \in SeasonCompetitions : StartRound(c)
    \/ \E raw \in DecisivePoints : ScoreInOrder(raw)
    \/ CloseClassification

SpecSeason == InitSeason /\ [][NextSeason]_vars

-----------------------------------------------------------------------------
(* SpecParallel: the two competitions of SpecSeason held at the same time:   *)
(* either is started, scored battle by battle and checked for progression    *)
(* in any interleaving with the other.  The group battles of the first take  *)
(* both decisive point pairs, every other battle 6.00/4.00.                  *)

PendingOf(c) == {b \in PendingBattles : battles[b].competition_id = c}

FirstPendingOf(c) == CHOOSE b \in PendingOf(c) : \A o \in PendingOf(c) : b <= o

\* The points sent for battle b.
ParallelPoints(b) ==
    IF battles[b].competition_id = 1 /\ battles[b].stage = "group"
    THEN DecisivePoints ELSE {<<6004, 4004>>}

StartEither(c) ==
    /\ status[c] = "qualifying"
    /\ Commit("start", start_tournament(db, c))

ScoreNextOf(c, raw) ==
    /\ PendingOf(c) # {}
    /\ raw \in ParallelPoints(FirstPendingOf(c))
    /\ SameDirection(FirstPendingOf(c), raw)
    /\ Commit("score", upsert_battle_run_score(db, FirstPendingOf(c), 1, 0,
                                               NextRun(FirstPendingOf(c), 1), raw[1], raw[2]))

ProgressEither(c) ==
    /\ status[c] = "tournament"
    /\ Commit("progress", manual_progress(db, c))

NextParallel ==
    \/ \E c \in SeasonCompetitions : StartEither(c)
    \/ \E c \in SeasonCompetitions : \E raw \in DecisivePoints : ScoreNextOf(c, raw)
    \/ \E c \in SeasonCompetitions : ProgressEither(c)

SpecParallel == InitSeason /\ [][NextParallel]_vars

-----------------------------------------------------------------------------
(* SpecRules: the functions of rules.py called on their own, as the tests of *)
(* test_rules.py call them, one call in a run; `last` holds the call and     *)
(* what it returned.                                                         *)

MaxPairs == 3

\* The pairs (a, b), a # b, of four drivers.
PairPool == {p \in (1..4) \X (1..4) : p[1] # p[2]}

\* The lists of up to MaxPairs different pairs.
PairLists ==
    UNION {{s \in [1..n -> PairPool] : \A i \in 1..n, j \in 1..n : s[i] = s[j] => i = j} :
             n \in 0..MaxPairs}

Called(op, args, result) ==
    /\ last.op = "none"
    /\ last' = [op |-> op, args |-> args, result |-> result]
    /\ UNCHANGED <<status, judges, entries, qscores, battles, bscores, is_closed>>

OrderBattles(pairs) ==
    /\ pairs \in PairLists
    /\ Called("order_battles_avoid_consecutive", pairs,
              order_battles_avoid_consecutive(pairs))

\* The places and ranks asked for: the steps of the tables, and beyond them.
Places == (-2)..40

Ranks == (-2)..10

PointsForPlace(place) ==
    /\ place \in Places
    /\ Called("competition_points_for_place", place, competition_points_for_place(place))

BonusForRank(rank) ==
    /\ rank \in Ranks
    /\ Called("qualifying_bonus_for_rank", rank, qualifying_bonus_for_rank(rank))

InitRules == InitWith(0, {})

NextRules ==
    \/ \E pairs \in PairLists : OrderBattles(pairs)
    \/ \E place \in Places : PointsForPlace(place)
    \/ \E rank \in Ranks : BonusForRank(rank)

SpecRules == InitRules /\ [][NextRules]_vars

-----------------------------------------------------------------------------
(* SpecStandings: the group stage of a 5-driver tournament judged by judge   *)
(* 1; the group battles are scored one after the other, both runs of a       *)
(* battle for the same driver, with points that let the drivers of Group A   *)
(* beat each other in a circle by close margins.                             *)

StandingsDrivers == 5

\* 8.27 : 1.73 and 8.19 : 1.81, for either driver, in thousandths
StandingsPoints ==
    {<<8270, 1730>>, <<8190, 1810>>, <<1730, 8270>>, <<1810, 8190>>}

PendingGroupBattles == {b \in PendingBattles : battles[b].stage = "group"}

FirstPendingGroup ==
    CHOOSE b \in PendingGroupBattles : \A o \in PendingGroupBattles : b <= o

ScoreGroupInOrder(raw) ==
    /\ PendingGroupBattles # {}
    /\ SameDirection(FirstPendingGroup, raw)
    /\ Commit("score",
              upsert_battle_run_score(db, FirstPendingGroup, 1, 0,
                                      NextRun(FirstPendingGroup, 1), raw[1], raw[2]))

InitStandings == InitWith(StandingsDrivers, TournamentJudges)

NextStandings ==
    \/ \E c \in CompetitionIds : StartFromQualifying(c)
    \/ \E raw \in StandingsPoints : ScoreGroupInOrder(raw)

SpecStandings == InitStandings /\ [][NextStandings]_vars

-----------------------------------------------------------------------------
(* Properties: the vocabulary of the specification, over the stored rows *)

StageBattles(c, stage) ==
    {b \in 1..Len(battles) : battles[b].competition_id = c /\ battles[b].stage = stage}

GroupBattles(c, group_name) ==
    {b \in StageBattles(c, "group") : battles[b].group_name = group_name}

AllCompleted(S) == \A b \in S : battles[b].status = "completed"

\* Every score request that can be sent for a battle of D: any judge, any
\* round up to two beyond the deepest the model stores, either run.
AnyJudgeIds == {1, 2, 3}

ScoreRequests(D) ==
    [b : 1..Len(D.battles), judge_id : AnyJudgeIds,
     omt_round : 0..(MaxOmtRound + 2), run_number : {1, 2}, raw : RawPoints]

Submit(D, q) ==
    upsert_battle_run_score(D, q.b, q.judge_id, q.omt_round, q.run_number,
                            q.raw[1], q.raw[2])

RoundKeys(D, b, omt_round) ==
    {k \in DOMAIN D.bscores : k[1] = b /\ k[2] = omt_round}

RunJudges(D, b, omt_round, run_number) ==
    {k[4] : k \in {x \in RoundKeys(D, b, omt_round) : x[3] = run_number}}

\* Both runs of the round hold one score of every assigned judge.
FullyScored(D, b, omt_round) ==
    \A run_number \in {1, 2} :
        RunJudges(D, b, omt_round, run_number) = D.judges[D.battles[b].competition_id]

SlotPoints(row, slot) == IF slot = 1 THEN row.driver1_points ELSE row.driver2_points

\* The driver's round score: the mean of the two run averages, each the mean
\* of the judges' points, rounded to 2 decimals.
RoundScore(D, b, omt_round, slot) ==
    round_score(SumFn([k \in RoundKeys(D, b, omt_round) |-> SlotPoints(D.bscores[k], slot)],
                      RoundKeys(D, b, omt_round)),
                2 * Cardinality(D.judges[D.battles[b].competition_id]))

Tied(D, b, omt_round) ==
    /\ FullyScored(D, b, omt_round)
    /\ RoundScore(D, b, omt_round, 1) = RoundScore(D, b, omt_round, 2)

Decided(D, b, omt_round) ==
    /\ FullyScored(D, b, omt_round)
    /\ RoundScore(D, b, omt_round, 1) # RoundScore(D, b, omt_round, 2)

\* The highest round of the battle with any score, 0 when it has none.
HighestScoredRound(D, b) ==
    SetMax({0} \cup {k[2] : k \in {x \in DOMAIN D.bscores : x[1] = b}})

\* maxAllowedRound: one beyond the highest scored round when that round is
\* fully scored and tied, else the highest scored round.
OpenRound(D, b) ==
    IF Tied(D, b, HighestScoredRound(D, b))
    THEN HighestScoredRound(D, b) + 1 ELSE HighestScoredRound(D, b)

HigherSlot(D, b, omt_round) ==
    IF RoundScore(D, b, omt_round, 1) > RoundScore(D, b, omt_round, 2) THEN 1 ELSE 2

SlotDriver(battle, slot) == IF slot = 1 THEN battle.driver1_id ELSE battle.driver2_id

-----------------------------------------------------------------------------
(* C1 *)

\* C1: semifinal battles exist only if every group battle of Group A and of
\* Group B is completed; a final or third-place battle exists only if both
\* semifinals are completed; the competition is completed only if both the
\* final and the third-place battle exist and are completed.
C1_StageOrder ==
    \A c \in DOMAIN status :
        /\ StageBattles(c, "semifinal") # {} =>
              /\ AllCompleted(GroupBattles(c, "A"))
              /\ AllCompleted(GroupBattles(c, "B"))
        /\ StageBattles(c, "final") \cup StageBattles(c, "third_place") # {} =>
              /\ Cardinality(StageBattles(c, "semifinal")) = 2
              /\ AllCompleted(StageBattles(c, "semifinal"))
        /\ status[c] = "completed" =>
              /\ StageBattles(c, "final") # {}
              /\ StageBattles(c, "third_place") # {}
              /\ AllCompleted(StageBattles(c, "final") \cup StageBattles(c, "third_place"))

\* The score that decided the last of the final and third-place battles has
\* completed the competition.
C1_Witness ==
    /\ status[1] = "completed"
    /\ last.op = "score"
    /\ last.progression.finalized_competition
    /\ StageBattles(1, "semifinal") # {}

-----------------------------------------------------------------------------
(* C2 *)

SecondCallIdle(first, second) ==
    /\ second.progression = NoProgression
    /\ second.db = first.db

CalledAgain(first, c) == SecondCallIdle(first, try_progress_competition(first.db, c))

ProgressIdempotent(D, c) == CalledAgain(try_progress_competition(D, c), c)

\* The rows a score command holds when it calls try_progress_competition:
\* the score written and the submitted round settled.
SettledBy(D, q) ==
    settle_round(write_run_score(D, <<q.b, q.omt_round, q.run_number, q.judge_id>>,
                                 round_score(q.raw[1], 10), round_score(q.raw[2], 10)),
                 q.b, q.omt_round)

\* C2: after one call of try_progress_competition a second call with no score
\* in between returns all three flags false and changes no battle, entry or
\* competition status; this holds for the call of POST /progress in every
\* reachable state and for the call every accepted score command makes.
C2_ProgressIdempotent ==
    \A c \in DOMAIN status :
        /\ ProgressIdempotent(db, c)
        /\ \A q \in ScoreRequests(db) :
              Submit(db, q).ok => ProgressIdempotent(SettledBy(db, q), c)

\* POST /progress has been called after the call that created the semifinals.
C2_Witness ==
    /\ last.op = "progress"
    /\ last.ok
    /\ last.progression = NoProgression
    /\ StageBattles(1, "semifinal") # {}
    /\ StageBattles(1, "final") = {}

-----------------------------------------------------------------------------
(* C3 *)

OvertimeOpened(D, q) ==
    /\ D.battles[q.b].status = "pending"
    /\ D.battles[q.b].winner_id = 0
    /\ D.battles[q.b].loser_id = 0
    /\ \A n \in ScoreRequests(D) :
          /\ n.b = q.b
          /\ n.judge_id \in D.judges[D.battles[q.b].competition_id]
          /\ round_score(n.raw[1], 10) + round_score(n.raw[2], 10) = 1000
          => /\ n.omt_round = q.omt_round + 1 => Submit(D, n).ok
             /\ n.omt_round = q.omt_round + 2 =>
                   /\ ~Submit(D, n).ok
                   /\ Submit(D, n).detail = "OMT round is not open yet"

\* C3: when an accepted submission makes the highest scored round k of a
\* pending battle fully scored with equal rounded round scores, the battle
\* stays pending with no winner and no loser, a following submission for round
\* k+1 is accepted and one for round k+2 is rejected.
C3_OvertimeOnTie ==
    \A q \in ScoreRequests(db) :
        /\ Submit(db, q).ok
        /\ HighestScoredRound(Submit(db, q).db, q.b) = q.omt_round
        /\ Tied(Submit(db, q).db, q.b, q.omt_round)
        => OvertimeOpened(Submit(db, q).db, q)

\* Round 0 of battle 1 is fully scored and tied, the battle is pending and a
\* score of round 1 has been accepted.
C3_Witness ==
    /\ Len(battles) >= 1
    /\ battles[1].status = "pending"
    /\ Tied(db, 1, 0)
    /\ RoundKeys(db, 1, 1) # {}
    /\ last.op = "score"
    /\ last.ok

-----------------------------------------------------------------------------
(* C4 *)

DecidedFor(D, q, slot) ==
    /\ D.battles[q.b].status = "completed"
    /\ D.battles[q.b].winner_id = SlotDriver(D.battles[q.b], slot)
    /\ D.battles[q.b].loser_id = SlotDriver(D.battles[q.b], 3 - slot)

\* C4: whenever an accepted score submission leaves its target round fully
\* scored with unequal round scores, the battle is completed by that command,
\* its winner is the driver with the strictly higher round score of that
\* round and its loser is the other driver.
C4_DecidedRoundCompletes ==
    \A q \in ScoreRequests(db) :
        /\ Submit(db, q).ok
        /\ Decided(Submit(db, q).db, q.b, q.omt_round)
        => DecidedFor(Submit(db, q).db, q, HigherSlot(Submit(db, q).db, q.b, q.omt_round))

\* A score has completed battle 1 for its second driver after an overtime
\* round was played.
C4_Witness ==
    /\ Len(battles) >= 1
    /\ battles[1].status = "completed"
    /\ battles[1].winner_id = battles[1].driver2_id
    /\ Decided(db, 1, 1)
    /\ last.op = "score"
    /\ last.ok

-----------------------------------------------------------------------------
(* C5 *)

CompletedBattles == {b \in 1..Len(battles) : battles[b].status = "completed"}

IsCompleted(b) == battles[b].status = "completed"

\* The command that produced res left every completed battle as it was: its
\* row and each of its stored run scores, none added and none removed.
CompletedUntouched(res) ==
    /\ \A b \in CompletedBattles : res.db.battles[b] = battles[b]
    /\ \A k \in DOMAIN bscores :
          IsCompleted(k[1]) => /\ k \in DOMAIN res.db.bscores
                               /\ res.db.bscores[k] = bscores[k]
    /\ \A k \in DOMAIN res.db.bscores : IsCompleted(k[1]) => k \in DOMAIN bscores

ScoreLeavesCompleted(q, res) ==
    /\ CompletedUntouched(res)
    /\ IsCompleted(q.b) =>
          /\ ~res.ok
          /\ res.detail = "Battle already completed"

\* C5: a completed battle is terminal: every score submission for it (any
\* judge, round, run) is rejected, and no command (a score for any battle,
\* POST /progress, POST /start-tournament) changes its status, winner, loser
\* or stored run scores.
C5_CompletedIsTerminal ==
    /\ \A q \in ScoreRequests(db) :
          \A res \in {Submit(db, q)} : ScoreLeavesCompleted(q, res)
    /\ \A c \in CompetitionIds :
          \A res \in {manual_progress(db, c), start_tournament(db, c)} :
              CompletedUntouched(res)

\* A score for a completed battle has been rejected while the tournament has
\* gone on to the semifinals.
C5_Witness ==
    /\ last.op = "score"
    /\ ~last.ok
    /\ last.detail = "Battle already completed"
    /\ StageBattles(1, "semifinal") # {}

-----------------------------------------------------------------------------
(* C6 *)

\* C6: a battle run score is accepted only while the battle is pending and
\* only for the currently open overtime round; a submission for any other
\* round of the battle, an earlier fully scored and tied round included, is
\* rejected.
C6_OnlyOpenRoundAccepted ==
    \A q \in ScoreRequests(db) :
        Submit(db, q).ok =>
            /\ battles[q.b].status = "pending"
            /\ q.omt_round = OpenRound(db, q.b)

-----------------------------------------------------------------------------
(* C7 *)

DecisiveScore(scores, battle, driver_id) ==
    IF driver_id = battle.driver1_id THEN scores[1] ELSE scores[2]

SetTheWinner(b, omt_round) ==
    /\ Decided(db, b, omt_round)
    /\ battles[b].winner_id = SlotDriver(battles[b], HigherSlot(db, b, omt_round))

DecisiveFrom(b, scores) ==
    /\ \E omt_round \in 0..(MaxOmtRound + 2) :
          /\ SetTheWinner(b, omt_round)
          /\ scores = <<RoundScore(db, b, omt_round, 1), RoundScore(db, b, omt_round, 2)>>
    /\ DecisiveScore(scores, battles[b], battles[b].winner_id)
          > DecisiveScore(scores, battles[b], battles[b].loser_id)

\* C7: for every completed battle the decisive round scores the standings
\* use are the round scores of the one round whose evaluation set the winner,
\* so the winner's decisive score is strictly greater than the loser's.
C7_DecisiveRoundSetWinner ==
    \A b \in CompletedBattles : DecisiveFrom(b, _battle_decisive_round_scores(db, b))

-----------------------------------------------------------------------------
(* C8 *)

PassesEarlierChecks(D, q) ==
    /\ D.battles[q.b].status = "pending"
    /\ round_score(q.raw[1], 10) + round_score(q.raw[2], 10) = 1000
    /\ q.judge_id \in D.judges[D.battles[q.b].competition_id]

RejectedNotOpen(D, q, res) ==
    /\ ~res.ok
    /\ res.db = D
    /\ PassesEarlierChecks(D, q) => res.detail = "OMT round is not open yet"

\* C8: a submission for round r of a battle is rejected whenever r is above
\* maxAllowedRound (the highest scored round, plus one when that round is
\* fully scored and tied), and the rejection is 'OMT round is not open yet'
\* when the battle is pending, the points sum to 10 and the judge is
\* assigned; so round 1 takes no score while round 0 is incomplete.
C8_NotOpenYet ==
    \A q \in ScoreRequests(db) :
        q.omt_round > OpenRound(db, q.b) => RejectedNotOpen(db, q, Submit(db, q))

\* A score for a later round has been rejected as not open while round 0 of
\* battle 1 holds scores but is incomplete.
C8_Witness ==
    /\ last.op = "score"
    /\ ~last.ok
    /\ last.detail = "OMT round is not open yet"
    /\ RoundKeys(db, 1, 0) # {}
    /\ ~FullyScored(db, 1, 0)

-----------------------------------------------------------------------------
(* C9 *)

RoundedSum(q) == round_score(q.raw[1], 10) + round_score(q.raw[2], 10)

RejectedStoringNothing(res) ==
    /\ ~res.ok
    /\ res.db = db

\* C9: every stored battle run score has driver1_points + driver2_points =
\* 10.00 after rounding to 2 decimals, and a submission whose two rounded
\* points do not sum to exactly 10 is rejected and stores nothing.
C9_PointsSumToTen ==
    /\ \A k \in DOMAIN bscores :
          bscores[k].driver1_points + bscores[k].driver2_points = 1000
    /\ \A q \in ScoreRequests(db) :
          RoundedSum(q) # 1000 => RejectedStoringNothing(Submit(db, q))

\* A score of 5.99 + 4.00 for a pending battle has been rejected for its sum
\* while the battle holds accepted scores.
C9_Witness ==
    /\ last.op = "score"
    /\ ~last.ok
    /\ last.detail = "Judge points must sum to exactly 10"
    /\ DOMAIN bscores # {}

-----------------------------------------------------------------------------
(* C10 *)

GroupRanked(c, group_name, rank) == group_standings(db, c, group_name)[rank].driver_id

Pairs(b, driver1_id, driver2_id) ==
    /\ battles[b].driver1_id = driver1_id
    /\ battles[b].driver2_id = driver2_id

CrossGroup(c, b) ==
    entries[c][battles[b].driver1_id].group_name
        # entries[c][battles[b].driver2_id].group_name

\* C10: the semifinals are SF1 (order 1) = rank 1 of Group A against rank 2 of
\* Group B and SF2 (order 2) = rank 1 of Group B against rank 2 of Group A, so
\* no semifinal pairs two drivers of the same group.
C10_SemifinalSeeding ==
    \A c \in DOMAIN status :
        StageBattles(c, "semifinal") # {} =>
            /\ Cardinality(StageBattles(c, "semifinal")) = 2
            /\ \E sf1, sf2 \in StageBattles(c, "semifinal") :
                  /\ battles[sf1].order_index = 1
                  /\ battles[sf2].order_index = 2
                  /\ Pairs(sf1, GroupRanked(c, "A", 1), GroupRanked(c, "B", 2))
                  /\ Pairs(sf2, GroupRanked(c, "B", 1), GroupRanked(c, "A", 2))
            /\ \A b \in StageBattles(c, "semifinal") : CrossGroup(c, b)

\* The score that completed the last group battle has created the semifinals,
\* Group A having been won by the second driver of its battle.
C10_Witness ==
    /\ last.op = "score"
    /\ last.progression.created_semifinals
    /\ StageBattles(1, "semifinal") # {}
    /\ \E b \in GroupBattles(1, "A") : battles[b].winner_id = battles[b].driver2_id

-----------------------------------------------------------------------------
(* C11 *)

\* The semifinal of the competition with the given order index.
Semifinal(c, order_index) ==
    battles[CHOOSE b \in StageBattles(c, "semifinal") :
                battles[b].order_index = order_index]

BothSemifinalsCompleted(c) ==
    /\ Cardinality(StageBattles(c, "semifinal")) = 2
    /\ AllCompleted(StageBattles(c, "semifinal"))

OneBattle(c, stage, driver1_id, driver2_id) ==
    /\ Cardinality(StageBattles(c, stage)) = 1
    /\ \A b \in StageBattles(c, stage) :
          /\ battles[b].driver1_id = driver1_id
          /\ battles[b].driver2_id = driver2_id
          /\ battles[b].order_index = 1

\* C11: the final and the third-place battle are created together, exactly
\* when both semifinals are completed: neither exists before, and once both
\* semifinals are completed there is one final, winner(SF1) vs winner(SF2),
\* and one third-place battle, loser(SF1) vs loser(SF2).
C11_FinalAndThirdPlace ==
    \A c \in DOMAIN status :
        IF BothSemifinalsCompleted(c)
        THEN /\ OneBattle(c, "final", Semifinal(c, 1).winner_id, Semifinal(c, 2).winner_id)
             /\ OneBattle(c, "third_place", Semifinal(c, 1).loser_id, Semifinal(c, 2).loser_id)
        ELSE StageBattles(c, "final") \cup StageBattles(c, "third_place") = {}

\* The score that completed the second semifinal has created the final and
\* the third-place battle, SF2 having been won by its second driver.
C11_Witness ==
    /\ last.op = "score"
    /\ last.progression.created_finals
    /\ StageBattles(1, "final") # {}
    /\ Semifinal(1, 2).winner_id = Semifinal(1, 2).driver2_id

-----------------------------------------------------------------------------
(* C12 *)

\* The one battle of the stage (final or third_place).
TheBattle(c, stage) == battles[CHOOSE b \in StageBattles(c, stage) : TRUE]

FinalPlace(c, d) == entries[c][d].final_place

\* C12: on finalization the winner of the final has place 1, its loser place
\* 2, the winner of the third-place battle place 3 and its loser place 4.
C12_TopFourPlaces ==
    \A c \in DOMAIN status :
        status[c] = "completed" =>
            /\ FinalPlace(c, TheBattle(c, "final").winner_id) = 1
            /\ FinalPlace(c, TheBattle(c, "final").loser_id) = 2
            /\ FinalPlace(c, TheBattle(c, "third_place").winner_id) = 3
            /\ FinalPlace(c, TheBattle(c, "third_place").loser_id) = 4

\* The score that decided the final has finalized the competition, the
\* third-place battle having been won by its second driver.
C12_Witness ==
    /\ status[1] = "completed"
    /\ last.progression.finalized_competition
    /\ TheBattle(1, "third_place").winner_id = TheBattle(1, "third_place").driver2_id
    /\ TheBattle(1, "final").winner_id = TheBattle(1, "final").driver1_id

-----------------------------------------------------------------------------
(* C13 *)

\* C13: in every state where a competition is completed, every one of its N
\* entries has a final placement, and the placements are exactly 1..N, each
\* given to one driver.
C13_PlacesAreOneToN ==
    \A c \in DOMAIN status :
        status[c] = "completed" =>
            /\ \A d \in DOMAIN entries[c] : FinalPlace(c, d) # 0
            /\ {FinalPlace(c, d) : d \in DOMAIN entries[c]}
                  = 1..Cardinality(DOMAIN entries[c])
            /\ \A d, e \in DOMAIN entries[c] :
                  FinalPlace(c, d) = FinalPlace(c, e) => d = e

\* A competition of 7 drivers is completed.
C13_Witness ==
    /\ status[1] = "completed"
    /\ Cardinality(DOMAIN entries[1]) = 7
    /\ last.progression.finalized_competition

-----------------------------------------------------------------------------
(* C14 *)

\* The rank of driver d within its group's standings.
GroupRankOf(c, d) ==
    LET rows == group_standings(db, c, entries[c][d].group_name)
    IN  rows[CHOOSE i \in 1..Len(rows) : rows[i].driver_id = d].rank

OutsideTopFour(c) == {d \in DOMAIN entries[c] : FinalPlace(c, d) > 4}

\* The group ranks of the drivers outside the top 4.
RemainderRanks(c) == [d \in OutsideTopFour(c) |-> GroupRankOf(c, d)]

MergeKey(c, group_rank, d) ==
    <<group_rank[d], entries[c][d].qualifying_rank, driver_number(d)>>

RemainderOrdered(c, group_rank) ==
    /\ {FinalPlace(c, d) : d \in OutsideTopFour(c)}
          = 5..Cardinality(DOMAIN entries[c])
    /\ \A d, e \in OutsideTopFour(c) :
          /\ TupleLess(MergeKey(c, group_rank, d), MergeKey(c, group_rank, e))
                <=> FinalPlace(c, d) < FinalPlace(c, e)
          /\ group_rank[d] < group_rank[e] => FinalPlace(c, d) < FinalPlace(c, e)

\* C14: the drivers outside the top 4 take the places 5, 6, ... in the order
\* of group rank, then qualifying rank, then car number; so of two such
\* drivers the one with the better group rank is placed ahead, whichever
\* groups they are in.
C14_RemainderOrder ==
    \A c \in DOMAIN status :
        status[c] = "completed" =>
            \A group_rank \in {RemainderRanks(c)} : RemainderOrdered(c, group_rank)

BetterGroupRankAhead(c, group_rank) ==
    \E d, e \in OutsideTopFour(c) :
        /\ entries[c][d].group_name = "A"
        /\ entries[c][e].group_name = "B"
        /\ entries[c][d].qualifying_rank < entries[c][e].qualifying_rank
        /\ group_rank[e] < group_rank[d]
        /\ FinalPlace(c, e) < FinalPlace(c, d)

\* A completed competition in which a driver of Group A is placed behind a
\* driver of Group B that has the worse qualifying rank but the better group
\* rank.
C14_Witness ==
    /\ status[1] = "completed"
    /\ \E group_rank \in {RemainderRanks(1)} : BetterGroupRankAhead(1, group_rank)

-----------------------------------------------------------------------------
(* C15 *)

StatusStep(c) ==
    \/ status'[c] = status[c]
    \/ /\ status[c] = "qualifying"
       /\ status'[c] = "tournament"
       /\ last'.op = "start"
       /\ last'.ok
    \/ /\ status[c] = "tournament"
       /\ status'[c] = "completed"
       /\ last'.progression.finalized_competition

\* C15: the status of a competition only moves forward: from qualifying to
\* tournament, by an accepted start_tournament only, and from tournament to
\* completed, by a finalization only; no step moves it backward or from
\* qualifying to completed, and completed is never left.
C15_StatusMovesForward ==
    [][/\ DOMAIN status' = DOMAIN status
       /\ \A c \in DOMAIN status : StatusStep(c)]_vars

\* start_tournament has been called on a completed competition and rejected.
C15_Witness ==
    /\ status[1] = "completed"
    /\ last.op = "start"
    /\ ~last.ok
    /\ last.detail = "Competition already completed"

-----------------------------------------------------------------------------
(* C16 *)

PlacesAssigned(c) == {FinalPlace(c, d) : d \in DOMAIN entries[c]}

CompletedWithTopFour(c) ==
    /\ status[c] = "completed"
    /\ {1, 2, 3, 4} \subseteq PlacesAssigned(c)

\* No battle has an overtime round: none is stored, current or required next.
NoOvertime ==
    /\ \A k \in DOMAIN bscores : k[2] = 0
    /\ \A b \in 1..Len(battles) :
          /\ battle_state(db, b).current_omt_round = 0
          /\ battle_state(db, b).next_required_omt_round = 0

\* C16: if the judges keep submitting full decisive rounds for every pending
\* battle of a started tournament, the competition eventually is completed
\* with the places 1, 2, 3 and 4 assigned, and no overtime round is ever
\* opened.
C16_DecisiveRoundsComplete ==
    /\ <>CompletedWithTopFour(1)
    /\ []NoOvertime

\* The competition is completed with places 1 to 4 assigned, every battle
\* holding the four scores of round 0 only, the final won by its second driver.
C16_Witness ==
    /\ CompletedWithTopFour(1)
    /\ last.op = "score"
    /\ last.progression.finalized_competition
    /\ Cardinality(DOMAIN bscores) = 4 * Len(battles)
    /\ TheBattle(1, "final").winner_id = TheBattle(1, "final").driver2_id

-----------------------------------------------------------------------------
(* C17 *)

\* Every submission a client can send for competition c: drivers registered
\* or not, judges assigned or not.
QualifyingRequests ==
    CompetitionIds \X (1..6) \X JudgeIds \X {1, 2} \X QualifyingScores

SubmitQualifying(q) == upsert_qualifying_score(db, q[1], q[2], q[3], q[4], q[5])

QualifyingKey(q) == <<q[1], q[2], q[3], q[4]>>

MaySubmit(q) ==
    /\ status[q[1]] = "qualifying"
    /\ q[2] \in DOMAIN entries[q[1]]
    /\ q[3] \in judges[q[1]]

\* The scores after the submission: the key holds the submitted score rounded
\* to two decimals, every other key what it held.
Upserted(q) ==
    [k \in DOMAIN qscores \cup {QualifyingKey(q)} |->
        IF k = QualifyingKey(q) THEN round_score(q[5], 10) ELSE qscores[k]]

QualifyingGuarded(q, res) ==
    /\ res.ok => MaySubmit(q)
    /\ ~MaySubmit(q) => (~res.ok /\ res.db.qscores = qscores)
    /\ res.ok => res.db.qscores = Upserted(q)

\* C17: a qualifying score submission is accepted only while the competition
\* is in "qualifying" and only for a registered driver and an assigned judge;
\* otherwise it is rejected and no qualifying score is created or changed.  An
\* accepted submission writes its (competition, driver, judge, run) key,
\* overwriting the score the key held, and touches no other key.
C17_QualifyingScoreGuarded ==
    \A q \in QualifyingRequests :
        \A res \in {SubmitQualifying(q)} : QualifyingGuarded(q, res)

\* A submission for a key that was scored during qualifying is rejected once
\* the tournament has started.
C17_Witness ==
    /\ status[1] = "tournament"
    /\ last.op = "qualifying_score"
    /\ ~last.ok
    /\ last.detail = "Qualifying scores can only be submitted before tournament starts"
    /\ <<1, 4, 1, 1>> \in DOMAIN qscores

-----------------------------------------------------------------------------
(* C18 *)

\* Both runs of driver d are scored by every assigned judge.
EntryComplete(c, d) ==
    \A judge_id \in judges[c], run_number \in {1, 2} :
        <<c, d, judge_id, run_number>> \in DOMAIN qscores

MayStart(c) ==
    /\ status[c] = "qualifying"
    /\ Cardinality(DOMAIN entries[c]) >= 4
    /\ judges[c] # {}
    /\ \A d \in DOMAIN entries[c] : EntryComplete(c, d)

StartLeaves(c, res) ==
    /\ res.db.status = status
    /\ res.db.battles = battles
    /\ DOMAIN res.db.entries[c] = DOMAIN entries[c]
    /\ \A d \in DOMAIN entries[c] :
          /\ res.db.entries[c][d].group_name = entries[c][d].group_name
          /\ res.db.entries[c][d].qualifying_rank = entries[c][d].qualifying_rank

StartGuarded(c, res) ==
    /\ res.ok => MayStart(c)
    /\ ~MayStart(c) => (~res.ok /\ StartLeaves(c, res))

\* C18: start_tournament succeeds only from "qualifying" with at least 4
\* registered drivers, at least one judge, and both runs of every driver
\* scored by every assigned judge; in every other case it is rejected and
\* leaves the status, the entries' group and qualifying rank and the battles
\* unchanged.
C18_StartPreconditions ==
    \A c \in CompetitionIds :
        \A res \in {start_tournament(db, c)} : StartGuarded(c, res)

\* Enough drivers are registered, and the start is refused because a driver
\* is not fully scored.
C18_Witness ==
    /\ status[1] = "qualifying"
    /\ Cardinality(DOMAIN entries[1]) >= 4
    /\ last.op = "start"
    /\ ~last.ok
    /\ last.detail = "Qualifying is not complete"

-----------------------------------------------------------------------------
(* C19 *)

Started(c) == status[c] # "qualifying"

GroupOfRank(i) == IF i % 2 = 1 THEN "A" ELSE "B"

\* The drivers in qualifying order.
QualifyingOrder(lb) == [i \in 1..Len(lb) |-> lb[i].driver_id]

\* The entry of the driver at position i of the leaderboard has rank i and
\* the group of that rank.
RankedAlternately(c, ordered) ==
    /\ SeqToSet(ordered) = DOMAIN entries[c]
    /\ \A i \in 1..Len(ordered) :
          /\ entries[c][ordered[i]].qualifying_rank = i
          /\ entries[c][ordered[i]].group_name = GroupOfRank(i)

\* The groups that start_tournament works with: ranks 1, 3, 5, ... in Group A
\* and ranks 2, 4, 6, ... in Group B, each in qualifying order.
GroupsInOrder(ordered, groups) ==
    /\ Len(groups.A) = (Len(ordered) + 1) \div 2
    /\ Len(groups.B) = Len(ordered) \div 2
    /\ \A k \in 1..Len(groups.A) : groups.A[k] = ordered[2 * k - 1]
    /\ \A k \in 1..Len(groups.B) : groups.B[k] = ordered[2 * k]

\* A group battle's first driver is the better qualified of the two.
PairsInOrder(c) ==
    \A b \in StageBattles(c, "group") :
        entries[c][battles[b].driver1_id].qualifying_rank
            < entries[c][battles[b].driver2_id].qualifying_rank

\* C19: after start_tournament the driver at qualifying rank i is in Group A
\* if i is odd and in Group B if i is even, every entry is in exactly one of
\* the two groups, and each group lists its drivers in qualifying order.
C19_AlternatingGroups ==
    \A c \in CompetitionIds :
        Started(c) =>
            \A ordered \in {QualifyingOrder(qualifying_leaderboard(db, c))} :
                /\ RankedAlternately(c, ordered)
                /\ GroupsInOrder(ordered, assign_groups_alternating(ordered))
                /\ \A d \in DOMAIN entries[c] : entries[c][d].group_name \in {"A", "B"}
                /\ PairsInOrder(c)

\* Seven drivers started, driver 1 rescored down into a tie with driver 4 and
\* ranked behind it, in Group B.
C19_Witness ==
    /\ status[1] = "tournament"
    /\ Cardinality(DOMAIN entries[1]) = 7
    /\ entries[1][1].qualifying_rank = 4
    /\ entries[1][1].group_name = "B"
    /\ entries[1][4].qualifying_score = entries[1][1].qualifying_score

-----------------------------------------------------------------------------
(* C20 *)

GroupMembers(c, group_name) ==
    {d \in DOMAIN entries[c] : entries[c][d].group_name = group_name}

Meetings(S, x, y) ==
    {b \in S : {battles[b].driver1_id, battles[b].driver2_id} = {x, y}}

\* The battles S are a round robin of the drivers members.
RoundRobin(S, members, n) ==
    /\ \A x \in members, y \in members :
          x # y => Cardinality(Meetings(S, x, y)) = 1
    /\ \A b \in S :
          /\ battles[b].driver1_id # battles[b].driver2_id
          /\ {battles[b].driver1_id, battles[b].driver2_id} \subseteq members
    /\ 2 * Cardinality(S) = n * (n - 1)
    /\ {battles[b].order_index : b \in S} = 1..Cardinality(S)

\* C20: after start_tournament the group battles of each group are a round
\* robin: every pair of distinct drivers of the group meets in exactly one
\* group battle, no battle pairs a driver with itself or with a driver of the
\* other group, and a group of n drivers has n(n-1)/2 battles with the order
\* indices 1..n(n-1)/2.
C20_GroupRoundRobin ==
    \A c \in CompetitionIds :
        Started(c) =>
            \A group_name \in {"A", "B"} :
                RoundRobin(GroupBattles(c, group_name), GroupMembers(c, group_name),
                           Cardinality(GroupMembers(c, group_name)))

\* Eight drivers started: two groups of four, six battles each.
C20_Witness ==
    /\ status[1] = "tournament"
    /\ Cardinality(GroupMembers(1, "A")) = 4
    /\ Cardinality(GroupMembers(1, "B")) = 4
    /\ Cardinality(GroupBattles(1, "A")) = 6
    /\ Cardinality(GroupBattles(1, "B")) = 6

-----------------------------------------------------------------------------
(* C21 *)

\* The drivers of the pair scheduled before position k (nobody before the first).
Preceding(ordered, k) ==
    IF k = 1 THEN {} ELSE {ordered[k - 1][1], ordered[k - 1][2]}

Shared(pair, drivers) == Cardinality({pair[1], pair[2]} \cap drivers)

\* Pair p is at least as good a choice as pair q after the drivers `before`:
\* fewer shared drivers, then the smaller first id, then the smaller second id.
AsGood(p, q, before) ==
    \/ Shared(p, before) < Shared(q, before)
    \/ /\ Shared(p, before) = Shared(q, before)
       /\ \/ p[1] < q[1]
          \/ p[1] = q[1] /\ p[2] <= q[2]

Occurrences(s, p) == Cardinality({i \in 1..Len(s) : s[i] = p})

IsPermutation(s, t) ==
    /\ Len(s) = Len(t)
    /\ \A i \in 1..Len(s) : Occurrences(s, s[i]) = Occurrences(t, s[i])

\* The pairs still remaining at step k are those at the positions k.. of the
\* result.
GreedySchedule(pairs, ordered) ==
    /\ IsPermutation(pairs, ordered)
    /\ \A k \in 1..Len(ordered), j \in 1..Len(ordered) :
          j >= k => AsGood(ordered[k], ordered[j], Preceding(ordered, k))
    /\ \A k \in 2..Len(ordered) :
          (\E j \in k..Len(ordered) : Shared(ordered[j], Preceding(ordered, k)) = 0)
              => Shared(ordered[k], Preceding(ordered, k)) = 0

\* C21: order_battles_avoid_consecutive returns a permutation of its input
\* pairs in which each scheduled pair has, among the pairs remaining at that
\* step, the fewest drivers in common with the pair before it, ties broken by
\* the smallest (first, second) driver id; so when a remaining pair shares no
\* driver with the pair before, the next scheduled pair shares none either.
C21_GreedySchedule ==
    last.op = "order_battles_avoid_consecutive" =>
        GreedySchedule(last.args, last.result)

\* After (1, 2) the pair (3, 4) is scheduled ahead of (1, 3), which was given
\* before it.
C21_Witness ==
    /\ last.op = "order_battles_avoid_consecutive"
    /\ last.args = << <<1, 2>>, <<1, 3>>, <<3, 4>> >>
    /\ last.result = << <<1, 2>>, <<3, 4>>, <<1, 3>> >>

-----------------------------------------------------------------------------
(* C22 *)

CompletedGroupBattles(c, group_name) ==
    {b \in GroupBattles(c, group_name) : battles[b].status = "completed"}

\* What the standings are ranked by, as a row of the standings shows it.
RankingKey(c, row) ==
    << -row.wins, -row.point_diff, -row.points_for,
       entries[c][row.driver_id].qualifying_rank, driver_number(row.driver_id) >>

CountsGroupBattles(c, group_name, row) ==
    /\ row.wins = Cardinality({b \in CompletedGroupBattles(c, group_name) :
                                  battles[b].winner_id = row.driver_id})
    /\ row.losses = Cardinality({b \in CompletedGroupBattles(c, group_name) :
                                    battles[b].loser_id = row.driver_id})
    /\ row.point_diff = row.points_for - row.points_against

StandingsRanked(c, group_name, rows) ==
    /\ Len(rows) = Cardinality(GroupMembers(c, group_name))
    /\ {rows[i].driver_id : i \in 1..Len(rows)} = GroupMembers(c, group_name)
    /\ \A i \in 1..Len(rows) :
          /\ rows[i].rank = i
          /\ CountsGroupBattles(c, group_name, rows[i])
    /\ \A i \in 1..Len(rows), j \in 1..Len(rows) :
          i < j => ~TupleLess(RankingKey(c, rows[j]), RankingKey(c, rows[i]))

\* C22: the group standings count, for each driver of the group, the wins and
\* losses over the completed group battles of that group only, and rank the
\* drivers by wins descending, then point differential (for minus against)
\* descending, then points-for descending, then qualifying rank ascending, then
\* car number ascending, giving the ranks 1..n each exactly once.
C22_GroupStandingsRanked ==
    \A c \in CompetitionIds, group_name \in {"A", "B"} :
        \A rows \in {group_standings(db, c, group_name)} :
            StandingsRanked(c, group_name, rows)

-----------------------------------------------------------------------------
(* C23 *)

Placed(c) == {d \in DOMAIN entries[c] : entries[c][d].final_place # 0}

\* The three point fields of a placed entry, in hundredths.
PointsOfPlace(e) ==
    /\ e.competition_points = 100 * competition_points_for_place(e.final_place)
    /\ e.qualifying_points
          = e.qualifying_score + 100 * qualifying_bonus_for_rank(e.qualifying_rank)
    /\ e.total_points = e.competition_points + e.qualifying_points

\* C23: on finalization every placed entry gets competition_points = the
\* points for its place, qualifying_points = qualifying_score + the bonus for
\* its qualifying rank, and total_points = competition_points +
\* qualifying_points.
C23_PointsOnFinalization ==
    \A c \in CompetitionIds :
        /\ status[c] = "completed" =>
              /\ Placed(c) = DOMAIN entries[c]
              /\ \A d \in Placed(c) : PointsOfPlace(entries[c][d])
        /\ status[c] # "completed" => Placed(c) = {}

\* The score that completed the competition has placed the best qualifier
\* fifth: 48 points for the place, 90.00 + 3 for qualifying.
C23_Witness ==
    /\ last.op = "score"
    /\ last.progression.finalized_competition
    /\ \E d \in DOMAIN entries[1] :
          /\ entries[1][d].qualifying_rank = 1
          /\ entries[1][d].final_place = 5
          /\ entries[1][d].competition_points = 4800
          /\ entries[1][d].qualifying_points = 9300
          /\ entries[1][d].total_points = 14100

-----------------------------------------------------------------------------
(* C24 *)

\* The step table of the competition points.
PlaceTable(place) ==
    CASE place = 1 -> 100
      [] place = 2 -> 88
      [] place = 3 -> 76
      [] place = 4 -> 64
      [] place \in 5..8 -> 48
      [] place \in 9..16 -> 32
      [] place \in 17..32 -> 16
      [] OTHER -> 0

BonusTable(rank) ==
    CASE rank = 1 -> 3
      [] rank = 2 -> 2
      [] rank = 3 -> 1
      [] OTHER -> 0

\* No later place gets more points than this one.
NoLaterPlaceBetter(place, points) ==
    place >= 1 =>
        \A later \in Places : later >= place => competition_points_for_place(later) <= points

\* C24: competition_points_for_place is the step table 1 -> 100, 2 -> 88,
\* 3 -> 76, 4 -> 64, 5..8 -> 48, 9..16 -> 32, 17..32 -> 16 and 0 for every
\* other place (place <= 0 and place >= 33 included); qualifying_bonus_for_rank
\* is 1 -> 3, 2 -> 2, 3 -> 1 and 0 for every other rank; the competition points
\* never increase as the place grows from 1.
C24_PointTables ==
    /\ last.op = "competition_points_for_place" =>
          /\ last.result = PlaceTable(last.args)
          /\ NoLaterPlaceBetter(last.args, last.result)
    /\ last.op = "qualifying_bonus_for_rank" =>
          last.result = BonusTable(last.args)

\* Place 33, the first one past the table, gets nothing.
C24_Witness ==
    /\ last.op = "competition_points_for_place"
    /\ last.args = 33
    /\ last.result = 0

-----------------------------------------------------------------------------
(* C25 *)

\* Run run_number of driver d has a score.
HasScores(c, d, run_number) ==
    \E k \in DOMAIN qscores : k[1] = c /\ k[2] = d /\ k[4] = run_number

Larger(a, b) == IF a >= b THEN a ELSE b

Smaller(a, b) == IF a <= b THEN a ELSE b

BestRunOf(c, row) ==
    IF HasScores(c, row.driver_id, 1) /\ HasScores(c, row.driver_id, 2)
    THEN /\ row.qualifying_score = Larger(row.run1_avg, row.run2_avg)
         /\ row.second_best_run = Smaller(row.run1_avg, row.run2_avg)
         /\ row.run1_avg # row.run2_avg =>
               2 * row.qualifying_score # row.run1_avg + row.run2_avg
    ELSE /\ row.second_best_run = 0
         /\ row.qualifying_score =
               IF HasScores(c, row.driver_id, 1) THEN row.run1_avg
               ELSE IF HasScores(c, row.driver_id, 2) THEN row.run2_avg
               ELSE 0

\* C25: for every driver and every set of qualifying scores the leaderboard's
\* qualifying_score is the larger of the run averages that have data (the one
\* run's average when only one run has scores, 0 when none has), never the
\* mean of the two runs; second_best is the smaller average when both runs
\* have data and 0 otherwise.
C25_BestRunNotMean ==
    \A c \in CompetitionIds :
        \A lb \in {qualifying_leaderboard(db, c)} :
            \A i \in 1..Len(lb) : BestRunOf(c, lb[i])

\* Driver 4 has only its second run scored, by two judges (80.00 and 70.00),
\* next to drivers whose two runs differ.
C25_Witness ==
    /\ status[1] = "qualifying"
    /\ 4 \in DOMAIN entries[1]
    /\ ~HasScores(1, 4, 1)
    /\ <<1, 4, 1, 2>> \in DOMAIN qscores
    /\ <<1, 4, 2, 2>> \in DOMAIN qscores
    /\ qscores[<<1, 4, 1, 2>>] # qscores[<<1, 4, 2, 2>>]
    /\ \E i \in 1..Len(qualifying_leaderboard(db, 1)) :
          /\ qualifying_leaderboard(db, 1)[i].driver_id = 4
          /\ qualifying_leaderboard(db, 1)[i].qualifying_score = 7500

-----------------------------------------------------------------------------
(* C26 *)

LeaderboardKey(row) ==
    << -row.qualifying_score, -row.second_best_run, -row.run2_avg, -row.run1_avg,
       driver_number(row.driver_id) >>

LeaderboardRanked(c, lb) ==
    /\ Len(lb) = Cardinality(DOMAIN entries[c])
    /\ {lb[i].driver_id : i \in 1..Len(lb)} = DOMAIN entries[c]
    /\ \A i \in 1..Len(lb) : lb[i].rank = i
    /\ \A i \in 1..Len(lb), j \in 1..Len(lb) :
          i < j => TupleLess(LeaderboardKey(lb[i]), LeaderboardKey(lb[j]))

\* C26: the qualifying leaderboard lists every registered driver exactly once,
\* sorted by qualifying_score descending, then second_best descending, then
\* run2_avg descending, then run1_avg descending, then car number ascending,
\* and assigns the ranks 1..N in that order, none repeated.
C26_LeaderboardRanked ==
    \A c \in CompetitionIds :
        \A lb \in {qualifying_leaderboard(db, c)} : LeaderboardRanked(c, lb)

\* Drivers 1 and 4 have the same qualifying score 80.00; driver 4, whose other
\* run is the better one, is listed first.
C26_Witness ==
    /\ status[1] = "qualifying"
    /\ \E i \in 1..(Len(qualifying_leaderboard(db, 1)) - 1) :
          /\ qualifying_leaderboard(db, 1)[i].driver_id = 4
          /\ qualifying_leaderboard(db, 1)[i + 1].driver_id = 1
          /\ qualifying_leaderboard(db, 1)[i].qualifying_score
                = qualifying_leaderboard(db, 1)[i + 1].qualifying_score
          /\ qualifying_leaderboard(db, 1)[i].second_best_run
                > qualifying_leaderboard(db, 1)[i + 1].second_best_run

-----------------------------------------------------------------------------
(* Classification standings *)

\* The completed competitions the driver has an entry in.
ResultsOf(d) ==
    {c \in DOMAIN status : status[c] = "completed" /\ d \in DOMAIN entries[c]}

RECURSIVE PointsOver(_, _)
\* The driver's total_points added up over the competitions cs.
PointsOver(d, cs) ==
    IF cs = {} THEN 0
    ELSE LET c == CHOOSE x \in cs : TRUE
         IN entries[c][d].total_points + PointsOver(d, cs \ {c})

\* The smallest of the driver's results.
MinimumResult(d) ==
    CHOOSE m \in {entries[c][d].total_points : c \in ResultsOf(d)} :
        \A c \in ResultsOf(d) : m <= entries[c][d].total_points

Dropped(d) == is_closed /\ Cardinality(ResultsOf(d)) > 1

TotalsOf(rows) ==
    \A i \in 1..Len(rows) :
        LET r == rows[i] IN
        /\ r.raw_total_points = PointsOver(r.driver_id, ResultsOf(r.driver_id))
        /\ r.effective_total_points =
              IF Dropped(r.driver_id)
              THEN r.raw_total_points - MinimumResult(r.driver_id)
              ELSE r.raw_total_points
        /\ r.drop_lowest_applied = Dropped(r.driver_id)

\* C27: in the classification standings a driver's raw total is the sum of
\* the driver's total_points over the completed competitions, and the
\* effective total is the raw total minus one occurrence of the driver's
\* smallest result when the classification is closed and the driver has more
\* than one result, and the raw total otherwise.
C27_DropLowestOnce == TotalsOf(global_classification_standings(db))

\* The classification is closed, and the standings hold a driver with two
\* results whose smallest is dropped next to a driver with one result.
C27_Witness ==
    /\ is_closed
    /\ \A rows \in {global_classification_standings(db)} :
        /\ \E i \in 1..Len(rows) :
              /\ rows[i].competitions_count = 2
              /\ rows[i].effective_total_points < rows[i].raw_total_points
        /\ \E i \in 1..Len(rows) :
              /\ rows[i].competitions_count = 1
              /\ rows[i].effective_total_points > 0

\* The drivers with a result in a completed competition.
ClassifiedDrivers == {d \in DriverIds : ResultsOf(d) # {}}

ClassificationKey(r) ==
    << -r.effective_total_points, -r.raw_total_points, driver_number(r.driver_id) >>

ClassificationRanked(rows) ==
    /\ {rows[i].driver_id : i \in 1..Len(rows)} = ClassifiedDrivers
    /\ Len(rows) = Cardinality(ClassifiedDrivers)
    /\ \A i \in 1..Len(rows) :
        /\ rows[i].rank = i
        /\ rows[i].competitions_count = Cardinality(ResultsOf(rows[i].driver_id))
    /\ \A i \in 1..(Len(rows) - 1) :
        TupleLess(ClassificationKey(rows[i]), ClassificationKey(rows[i + 1]))

\* C28: the classification standings hold exactly the drivers with a result
\* in a completed competition and count only those competitions; the rows
\* are in order of effective total descending, then raw total descending,
\* then car number ascending, and carry the ranks 1..M in that order.
C28_ClassificationRanked == ClassificationRanked(global_classification_standings(db))

\* The first competition is completed and the second is under way with
\* entries of its own; the standings rank the four drivers of the first.
C28_Witness ==
    /\ status[1] = "completed"
    /\ status[2] = "tournament"
    /\ 5 \in DOMAIN entries[2]
    /\ Len(global_classification_standings(db)) = 4

-----------------------------------------------------------------------------
(* The battle view *)

\* The round the view asks for next: one beyond the highest scored round when
\* the battle is pending and that round is fully scored and tied.
RequiredRound(b) ==
    IF battles[b].status = "pending" /\ Tied(db, b, HighestScoredRound(db, b))
    THEN HighestScoredRound(db, b) + 1
    ELSE HighestScoredRound(db, b)

ViewRounds(b, view) ==
    /\ view.current_omt_round = HighestScoredRound(db, b)
    /\ view.next_required_omt_round = RequiredRound(b)
    /\ view.status = battles[b].status

\* C29: the battle view's current_omt_round is the highest round with any
\* score (0 if none); its next_required_omt_round is current_omt_round + 1
\* exactly when the battle is pending and that round is fully scored and
\* tied, and current_omt_round in every other case.
C29_BattleViewRounds ==
    \A b \in 1..Len(battles) : \A view \in {battle_state(db, b)} : ViewRounds(b, view)

\* Battle 1 is pending with its round 0 fully scored and tied, and its view
\* asks for round 1.
C29_Witness ==
    /\ Len(battles) >= 1
    /\ battles[1].status = "pending"
    /\ Tied(db, 1, 0)
    /\ battle_state(db, 1).current_omt_round = 0
    /\ battle_state(db, 1).next_required_omt_round = 1

-----------------------------------------------------------------------------
(* The progression check *)

\* The stage has battles and all of them are completed.
StageDone(c, stage) ==
    /\ StageBattles(c, stage) # {}
    /\ \A b \in StageBattles(c, stage) : battles[b].status = "completed"

GroupDone(c, group_name) ==
    /\ \E b \in StageBattles(c, "group") : battles[b].group_name = group_name
    /\ \A b \in StageBattles(c, "group") :
          battles[b].group_name = group_name => battles[b].status = "completed"

GroupSize(c, group_name) ==
    Cardinality({d \in DOMAIN entries[c] : entries[c][d].group_name = group_name})

\* The semifinals are due: there are none, and both groups, of two drivers or
\* more each, have completed their battles.
SemifinalsDue(c) ==
    /\ StageBattles(c, "semifinal") = {}
    /\ GroupDone(c, "A") /\ GroupDone(c, "B")
    /\ GroupSize(c, "A") >= 2 /\ GroupSize(c, "B") >= 2

\* The final and the third-place battle are due: the two semifinals are
\* completed and neither battle exists.
FinalsDue(c) ==
    /\ StageDone(c, "semifinal")
    /\ Cardinality(StageBattles(c, "semifinal")) = 2
    /\ StageBattles(c, "final") = {} /\ StageBattles(c, "third_place") = {}

\* The finalization is due: the final and the third-place battle are
\* completed and the competition is not.
FinalizationDue(c) ==
    /\ status[c] # "completed"
    /\ StageDone(c, "final") /\ StageDone(c, "third_place")

NothingDue(c) == ~SemifinalsDue(c) /\ ~FinalsDue(c) /\ ~FinalizationDue(c)

ProgressionFlags ==
    [created_semifinals : BOOLEAN, created_finals : BOOLEAN,
     finalized_competition : BOOLEAN]

ProgressionChecked(c, res) ==
    /\ res.progression \in ProgressionFlags
    /\ NothingDue(c) =>
         /\ res.progression = [created_semifinals |-> FALSE, created_finals |-> FALSE,
                               finalized_competition |-> FALSE]
         /\ res.db = db

\* C30: in every reachable state, for every existing competition,
\* try_progress_competition returns its three booleans, and when neither the
\* semifinals, nor the final and third-place battle, nor the finalization is
\* due it returns all three false and leaves every table as it is.
C30_ProgressionNeverFails ==
    \A c \in DOMAIN status :
        \A res \in {try_progress_competition(db, c)} : ProgressionChecked(c, res)

\* The progression endpoint was called on a tournament whose semifinals are
\* under way, one completed and one pending, and reported nothing created.
C30_Witness ==
    /\ last.op = "progress"
    /\ last.ok
    /\ last.progression = [created_semifinals |-> FALSE, created_finals |-> FALSE,
                           finalized_competition |-> FALSE]
    /\ status[1] = "tournament"
    /\ \E b \in StageBattles(1, "semifinal") : battles[b].status = "completed"
    /\ \E b \in StageBattles(1, "semifinal") : battles[b].status = "pending"
    /\ NothingDue(1)

-----------------------------------------------------------------------------
(* Rejected commands *)

\* The rejected command's database is the one it was given, table by table.
LeavesState(res) ==
    ~res.ok =>
        /\ res.db.status = status
        /\ res.db.entries = entries
        /\ res.db.qscores = qscores
        /\ res.db.battles = battles
        /\ res.db.bscores = bscores
        /\ res.db.judges = judges
        /\ res.progression = NoProgression

StartRequests == CompetitionIds \cup {2}

\* C31: a rejected qualifying score, battle run score or start of the
\* tournament leaves the whole state as it was: no score is stored or
\* overwritten, no battle is created or completed, and no entry field and no
\* competition status changes.
C31_RejectionLeavesState ==
    /\ \A q \in ScoreRequests(db) : \A res \in {Submit(db, q)} : LeavesState(res)
    /\ \A q \in QualifyingRequests : \A res \in {SubmitQualifying(q)} : LeavesState(res)
    /\ \A c \in StartRequests : \A res \in {start_tournament(db, c)} : LeavesState(res)

\* A second start has been rejected while the tournament is running with
\* scores stored, and a score for a round that is not open is being refused.
C31_Witness ==
    /\ last.op = "start"
    /\ ~last.ok
    /\ status[1] = "tournament"
    /\ DOMAIN bscores # {}
    /\ \E q \in ScoreRequests(db) :
          ~Submit(db, q).ok /\ Submit(db, q).detail = "OMT round is not open yet"

-----------------------------------------------------------------------------
(* Commands on different competitions *)

BattlesOf(D, c) == {b \in 1..Len(D.battles) : D.battles[b].competition_id = c}

\* The commands for competition c: its start, its progression check, and a
\* round-0 score of judge 1 for the next run of each of its pending battles.
\* <<kind, competition, battle, run, points>>
CommandsOn(D, c) ==
    {<<"start", c, 0, 0, <<0, 0>> >>, <<"progress", c, 0, 0, <<0, 0>> >>}
    \cup {<<"score", c, b, IF <<b, 0, 1, 1>> \in DOMAIN D.bscores THEN 2 ELSE 1, raw>> :
            b \in {x \in BattlesOf(D, c) : D.battles[x].status = "pending"},
            raw \in DecisivePoints}

\* The database after the command.
After(D, cmd) ==
    IF cmd[1] = "start" THEN start_tournament(D, cmd[2]).db
    ELSE IF cmd[1] = "progress" THEN manual_progress(D, cmd[2]).db
    ELSE upsert_battle_run_score(D, cmd[3], 1, 0, cmd[4], cmd[5][1], cmd[5][2]).db

\* Everything the database D1 holds of competition c is as in D: its status,
\* entries, judges, qualifying scores, battles and battle scores.
SameCompetition(D1, D, c) ==
    /\ D1.status[c] = D.status[c]
    /\ D1.entries[c] = D.entries[c]
    /\ D1.judges[c] = D.judges[c]
    /\ {k \in DOMAIN D1.qscores : k[1] = c} = {k \in DOMAIN D.qscores : k[1] = c}
    /\ \A k \in DOMAIN D.qscores : k[1] = c => D1.qscores[k] = D.qscores[k]
    /\ BattlesOf(D1, c) = BattlesOf(D, c)
    /\ \A b \in BattlesOf(D, c) : D1.battles[b] = D.battles[b]
    /\ {k \in DOMAIN D1.bscores : k[1] \in BattlesOf(D, c)}
          = {k \in DOMAIN D.bscores : k[1] \in BattlesOf(D, c)}
    /\ \A k \in DOMAIN D.bscores : k[1] \in BattlesOf(D, c) => D1.bscores[k] = D.bscores[k]

\* The place of battle b among the battles of its competition.
PlaceAmong(D, b) ==
    Cardinality({o \in 1..b : D.battles[o].competition_id = D.battles[b].competition_id})

\* The competition as its commands and views see it: its battles and their
\* scores by the battles' order within the competition.
CompetitionState(D, c) ==
    [status |-> D.status[c],
     entries |-> D.entries[c],
     judges |-> D.judges[c],
     qscores |-> {<<k, D.qscores[k]>> : k \in {x \in DOMAIN D.qscores : x[1] = c}},
     battles |-> {<<PlaceAmong(D, b), D.battles[b]>> : b \in BattlesOf(D, c)},
     bscores |-> {<<PlaceAmong(D, k[1]), k[2], k[3], k[4], D.bscores[k]>> :
                    k \in {x \in DOMAIN D.bscores : x[1] \in BattlesOf(D, c)}}]

\* Each command for competition c with the database it leaves.
Outcomes(c) == {<<cmd, After(db, cmd)>> : cmd \in CommandsOn(db, c)}

\* The two commands lead to the same state of both competitions in either
\* order; ox, oy: the commands with the databases they leave.
Commute(x, y, ox, oy) ==
    \A xy \in {After(ox[2], oy[1])}, yx \in {After(oy[2], ox[1])} :
        /\ CompetitionState(xy, x) = CompetitionState(yx, x)
        /\ CompetitionState(xy, y) = CompetitionState(yx, y)

Independent(x, y, outx, outy) ==
    /\ \A ox \in outx : SameCompetition(ox[2], db, y)
    /\ \A oy \in outy : SameCompetition(oy[2], db, x)
    /\ \A ox \in outx : \A oy \in outy : Commute(x, y, ox, oy)

\* C32: a score submission, a start or a progression check on one competition
\* leaves the status, entries, scores and battles of every other competition
\* as they were, and two commands on different competitions lead to the same
\* state of each competition in either order.
C32_CompetitionsIndependent ==
    \A x \in DOMAIN status : \A y \in DOMAIN status : x < y =>
        \A outx \in {Outcomes(x)}, outy \in {Outcomes(y)} : Independent(x, y, outx, outy)

\* Both tournaments are running, each with a battle completed and one
\* pending, and the last command was a score.
C32_Witness ==
    /\ status[1] = "tournament" /\ status[2] = "tournament"
    /\ last.op = "score" /\ last.ok
    /\ \A c \in {1, 2} :
          /\ \E b \in BattlesOf(db, c) : battles[b].status = "completed"
          /\ \E b \in BattlesOf(db, c) : battles[b].status = "pending"

-----------------------------------------------------------------------------
(* Battle status and rounds *)

ScoredRounds(b) == 0..HighestScoredRound(db, b)

StatusMatchesRounds(b) ==
    /\ battles[b].status \in {"pending", "completed"}
    /\ battles[b].status = "completed" <=> \E r \in ScoredRounds(b) : Decided(db, b, r)
    /\ battles[b].status = "pending" =>
          /\ \A r \in ScoredRounds(b) : r < HighestScoredRound(db, b) => Tied(db, b, r)
          /\ \/ ~FullyScored(db, b, HighestScoredRound(db, b))
             \/ Tied(db, b, HighestScoredRound(db, b))

\* C33: a battle is completed if and only if one of its rounds is fully
\* scored with unequal round scores; for a pending battle every round below
\* its highest scored round is fully scored and tied, and the highest scored
\* round is incomplete or tied.
C33_StatusMatchesRounds == \A b \in 1..Len(battles) : StatusMatchesRounds(b)

\* Battle 1 is pending in its overtime round: round 0 is fully scored and
\* tied and round 1 holds a score but not all of them.
C33_Witness ==
    /\ Len(battles) >= 1
    /\ battles[1].status = "pending"
    /\ HighestScoredRound(db, 1) = 1
    /\ Tied(db, 1, 0)
    /\ ~FullyScored(db, 1, 1)

-----------------------------------------------------------------------------
(* The knockout battles *)

\* The drivers of the battles S.
DriversIn(S) == UNION {{battles[b].driver1_id, battles[b].driver2_id} : b \in S}

Knockout(c) == StageBattles(c, "final") \cup StageBattles(c, "third_place")

KnockoutShape(c) ==
    /\ Cardinality(StageBattles(c, "semifinal")) <= 2
    /\ Cardinality(StageBattles(c, "final")) <= 1
    /\ Cardinality(StageBattles(c, "third_place")) <= 1
    /\ StageBattles(c, "semifinal") # {} =>
          /\ Cardinality(StageBattles(c, "semifinal")) = 2
          /\ Cardinality(DriversIn(StageBattles(c, "semifinal"))) = 4
    /\ Knockout(c) # {} =>
          /\ Cardinality(Knockout(c)) = 2
          /\ Cardinality(DriversIn(Knockout(c))) = 4
          /\ DriversIn(Knockout(c)) = DriversIn(StageBattles(c, "semifinal"))

\* C34: a competition has at most 2 semifinal battles, at most 1 final and at
\* most 1 third-place battle; the two semifinals involve 4 distinct drivers,
\* and the final and the third-place battle involve 4 distinct drivers, the
\* same four as the semifinals.
C34_KnockoutShape == \A c \in DOMAIN status : KnockoutShape(c)

\* The final and the third-place battle exist next to the two completed
\* semifinals, and the final is being scored.
C34_Witness ==
    /\ Cardinality(StageBattles(1, "semifinal")) = 2
    /\ Cardinality(StageBattles(1, "final")) = 1
    /\ Cardinality(StageBattles(1, "third_place")) = 1
    /\ \E b \in StageBattles(1, "final") :
          battles[b].status = "pending" /\ RoundKeys(db, b, 0) # {}

-----------------------------------------------------------------------------
(* One trigger per progression check *)

TriggersApplied(progression) ==
    Cardinality({f \in {"created_semifinals", "created_finals", "finalized_competition"} :
                    progression[f]})

\* C35: a progression check applies at most one of its three triggers: the
\* check a battle score runs, the one the last command ran and a manual check
\* in the current state each report at most one of created_semifinals,
\* created_finals and finalized_competition.
C35_OneTriggerPerCheck ==
    /\ TriggersApplied(last.progression) <= 1
    /\ \A c \in DOMAIN status :
          TriggersApplied(try_progress_competition(db, c).progression) <= 1
    /\ \A q \in ScoreRequests(db) : TriggersApplied(Submit(db, q).progression) <= 1

\* The last score completed the second semifinal: its progression check
\* created the final and the third-place battle, both pending, and nothing
\* else.
C35_Witness ==
    /\ last.op = "score"
    /\ last.progression = [created_semifinals |-> FALSE, created_finals |-> TRUE,
                           finalized_competition |-> FALSE]
    /\ \A b \in Knockout(1) : battles[b].status = "pending"
    /\ Cardinality(Knockout(1)) = 2
    /\ status[1] = "tournament"

-----------------------------------------------------------------------------
(* Eager progression *)

\* A manual progression check now creates nothing and changes nothing.
ManualCheckIdle(c) ==
    \A res \in {manual_progress(db, c)} :
        /\ res.ok
        /\ res.progression = NoProgression
        /\ res.db = db

\* C36: in every state a start or a battle score leaves behind no progression
\* trigger is due (no completed stage is without its successor stage), so a
\* manual progression check in any reachable state returns all false, and
\* every manual check that ran reported all false.
C36_EagerProgression ==
    /\ \A c \in DOMAIN status : NothingDue(c) /\ ManualCheckIdle(c)
    /\ last.op = "progress" => last.progression = NoProgression

\* A manual check ran right after the score that completed the second
\* semifinal: the final and the third-place battle were already there.
C36_Witness ==
    /\ last.op = "progress"
    /\ last.ok
    /\ StageDone(1, "semifinal")
    /\ Cardinality(Knockout(1)) = 2
    /\ \A b \in Knockout(1) : RoundKeys(db, b, 0) = {}

-----------------------------------------------------------------------------
(* Winner and loser *)

\* winner_id and loser_id are unset as 0.
WinnerAndLoser(battle) ==
    IF battle.status = "completed"
    THEN /\ battle.winner_id # 0 /\ battle.loser_id # 0
         /\ battle.winner_id # battle.loser_id
         /\ {battle.winner_id, battle.loser_id} = {battle.driver1_id, battle.driver2_id}
    ELSE /\ battle.status = "pending"
         /\ battle.winner_id = 0 /\ battle.loser_id = 0

\* C37: a battle has a winner and a loser if and only if it is completed, and
\* then they are two different drivers, the battle's driver1 and driver2 in
\* some order; a pending battle has neither.
C37_WinnerAndLoser == \A b \in 1..Len(battles) : WinnerAndLoser(battles[b])

\* A battle was won by its second driver while another battle is pending
\* with scores stored.
C37_Witness ==
    /\ \E b \in 1..Len(battles) :
          /\ battles[b].status = "completed"
          /\ battles[b].winner_id = battles[b].driver2_id
          /\ battles[b].loser_id = battles[b].driver1_id
    /\ \E b \in 1..Len(battles) :
          /\ battles[b].status = "pending"
          /\ RoundKeys(db, b, 0) # {}

-----------------------------------------------------------------------------
(* Places and group ranks *)

\* The drivers the standings rows rank from lo to hi.
RankedWithin(rows, lo, hi) ==
    {rows[i].driver_id : i \in {x \in 1..Len(rows) : rows[x].rank \in lo..hi}}

PlacedWithin(c, lo, hi) ==
    {d \in DOMAIN entries[c] : entries[c][d].final_place \in lo..hi}

\* a, b: the standings of Group A and Group B.
PlacesFollowGroups(c, a, b) ==
    /\ PlacedWithin(c, 1, 4) = RankedWithin(a, 1, 2) \cup RankedWithin(b, 1, 2)
    /\ PlacedWithin(c, 5, Len(a) + Len(b)) \subseteq
          RankedWithin(a, 3, Len(a)) \cup RankedWithin(b, 3, Len(b))
    /\ \A d \in DOMAIN entries[c] : entries[c][d].final_place \in 1..(Len(a) + Len(b))

\* C38: in a completed competition the drivers placed 1 to 4 are exactly the
\* drivers the Group A and Group B standings rank 1 and 2, and every driver
\* placed 5 or lower has group rank 3 or worse.
C38_PlacesFollowGroups ==
    \A c \in DOMAIN status :
        status[c] = "completed" =>
            \A a \in {group_standings(db, c, "A")}, b \in {group_standings(db, c, "B")} :
                PlacesFollowGroups(c, a, b)

\* A competition of seven drivers is completed: three of them are placed 5
\* or lower.
C38_Witness ==
    /\ status[1] = "completed"
    /\ Cardinality(DOMAIN entries[1]) = 7
    /\ Cardinality(PlacedWithin(1, 5, 7)) = 3
    /\ Cardinality(PlacedWithin(1, 1, 4)) = 4

-----------------------------------------------------------------------------
(* Placement and points are written by finalization only *)

Unplaced(e) ==
    /\ e.final_place = 0
    /\ e.competition_points = 0
    /\ e.qualifying_points = 0
    /\ e.total_points = 0

\* The command's database holds competition c as it is: its entries, its
\* status, its battles and every score.
Frozen(res, c) ==
    /\ res.db.entries[c] = entries[c]
    /\ res.db.status[c] = status[c]
    /\ res.db.battles = battles
    /\ res.db.bscores = bscores
    /\ res.db.qscores = qscores

\* No command changes the completed competition c.
NoCommandChanges(c) ==
    /\ \A q \in ScoreRequests(db) : \A res \in {Submit(db, q)} : Frozen(res, c)
    /\ \A q \in QualifyingRequests : \A res \in {SubmitQualifying(q)} : Frozen(res, c)
    /\ \A res \in {start_tournament(db, c), manual_progress(db, c)} : Frozen(res, c)

\* C39: while a competition is not completed every entry of it has no
\* final_place and competition_points, qualifying_points and total_points of
\* 0; once it is completed no command changes an entry's placement, points,
\* group or qualifying rank, and no battle or score is created or changed.
C39_FinalizationWritesPlaces ==
    \A c \in DOMAIN status :
        IF status[c] = "completed"
        THEN NoCommandChanges(c)
        ELSE \A d \in DOMAIN entries[c] : Unplaced(entries[c][d])

\* The competition is completed with its places assigned, and a battle score
\* sent afterwards has been rejected.
C39_Witness ==
    /\ status[1] = "completed"
    /\ last.op = "score"
    /\ ~last.ok
    /\ \A d \in DOMAIN entries[1] :
          entries[1][d].final_place \in 1..4 /\ entries[1][d].total_points > 0

====
